---- MODULE Spec2Model ----
(***************************************************************************)
(* Smirk: an in-memory typed key-value server.  The model covers the line  *)
(* decoder (src/lib/command.rs), the store (src/core/smirk_map.rs,         *)
(* src/core/record.rs), the prefix trie (src/core/trie.rs) and the         *)
(* connection handler and dispatcher (src/server/main.rs).                 *)
(*                                                                         *)
(* Bytes and characters are one-character strings; a byte string, a key    *)
(* and a line are sequences of them.  "\n" is the newline byte and "#" is  *)
(* a byte that is not valid UTF-8 on its own; "?" is the replacement       *)
(* character U+FFFD that from_utf8_lossy puts in its place.                *)
(***************************************************************************)
EXTENDS Integers, Sequences, FiniteSets, TLC

\* ------------------------------------------------------------------ bounds
\* Lines read by the server, over all connections, in one behaviour.
MaxCmds == 3
\* The wall clock is read at 0, ClockStep, .. MaxTime * ClockStep seconds.
MaxTime == 1
ClockStep == 3

\* ------------------------------------------------------- program constants
\* Trie::default and the node Trie::insert creates start their counter at 1.
InitialCounter == 1
I8Min == -128
I8Max == 127
U8Max == 255

\* ------------------------------------------------------------ byte strings
NL == "\n"
SP == " "
BadByte == "#"
Replacement == "?"

\* String::from_utf8_lossy: every invalid byte becomes U+FFFD.
Lossy(bytes) ==
    [i \in DOMAIN bytes |-> IF bytes[i] = BadByte THEN Replacement ELSE bytes[i]]

\* u8::to_ascii_uppercase over the letters the modelled lines use.
UpperByte(b) ==
    CASE b = "q" -> "Q" [] b = "u" -> "U" [] b = "i" -> "I" [] b = "t" -> "T"
      [] b = "g" -> "G" [] b = "l" -> "L" [] b = "o" -> "O" [] b = "b" -> "B"
      [] b = "s" -> "S" [] b = "e" -> "E" [] b = "d" -> "D"
      [] OTHER -> b

ToAsciiUppercase(bytes) == [i \in DOMAIN bytes |-> UpperByte(bytes[i])]

\* Vec::pop when the last byte is a newline.
PopNewline(bytes) ==
    IF Len(bytes) > 0 /\ bytes[Len(bytes)] = NL
    THEN SubSeq(bytes, 1, Len(bytes) - 1)
    ELSE bytes

\* Vec::pop: drops the last byte, whatever it is.
Pop(bytes) ==
    IF Len(bytes) > 0 THEN SubSeq(bytes, 1, Len(bytes) - 1) ELSE bytes

\* slice::split(|x| x == b' '): n separators give n + 1 tokens, empty ones kept.
RECURSIVE SplitFrom(_, _, _)
SplitFrom(bytes, i, tok) ==
    IF i > Len(bytes) THEN <<tok>>
    ELSE IF bytes[i] = SP THEN <<tok>> \o SplitFrom(bytes, i + 1, <<>>)
    ELSE SplitFrom(bytes, i + 1, Append(tok, bytes[i]))

Split(bytes) == SplitFrom(bytes, 1, <<>>)

\* [&[u8]]::join(&b' ')
RECURSIVE Join(_)
Join(toks) ==
    IF Len(toks) = 0 THEN <<>>
    ELSE IF Len(toks) = 1 THEN toks[1]
    ELSE toks[1] \o <<SP>> \o Join(Tail(toks))

RECURSIVE LossyAll(_)
LossyAll(toks) ==
    IF toks = <<>> THEN <<>> ELSE <<Lossy(Head(toks))>> \o LossyAll(Tail(toks))

\* ------------------------------------------------------------------- words
W_SET == <<"S", "E", "T">>
W_GET == <<"G", "E", "T">>
W_DEL == <<"D", "E", "L">>
W_KEYS == <<"K", "E", "Y", "S">>
W_MODE == <<"M", "O", "D", "E">>
W_TTL == <<"T", "T", "L">>
W_DELTTL == <<"D", "E", "L", "T", "T", "L">>
W_EXISTS == <<"E", "X", "I", "S", "T", "S">>
W_TYPE == <<"T", "Y", "P", "E">>
W_QUIT == <<"Q", "U", "I", "T">>
W_SAVE == <<"S", "A", "V", "E">>
W_ADD == <<"A", "D", "D">>
W_GLOB == <<"G", "L", "O", "B">>
W_REGEX == <<"R", "E", "G", "E", "X">>
W_TRIE == <<"T", "R", "I", "E">>

T_i8 == <<"i", "8">>
T_u8 == <<"u", "8">>
T_String == <<"S", "t", "r", "i", "n", "g">>
T_f32 == <<"f", "3", "2">>

\* A type tag no arm of the dispatcher names, and a second one.
T_blob == <<"b", "l", "o", "b">>
T_raw == <<"r", "a", "w">>

\* ------------------------------------------------------------ text parsers
IsDigit(c) == c \in {"0", "1", "2", "3", "4", "5", "6", "7", "8", "9"}

DigitValue(c) ==
    CASE c = "0" -> 0 [] c = "1" -> 1 [] c = "2" -> 2 [] c = "3" -> 3
      [] c = "4" -> 4 [] c = "5" -> 5 [] c = "6" -> 6 [] c = "7" -> 7
      [] c = "8" -> 8 [] c = "9" -> 9

\* The digit loop that stops at the first byte that is not a digit and
\* answers the value read so far, as C's strtol does.
RECURSIVE ParseDigitsLenient(_, _, _, _, _)
ParseDigitsLenient(s, acc, sign, lo, hi) ==
    IF s = <<>> \/ ~IsDigit(Head(s)) THEN [ok |-> TRUE, n |-> acc]
    ELSE LET next == acc * 10 + sign * DigitValue(Head(s))
         IN IF next < lo \/ next > hi THEN [ok |-> FALSE, n |-> 0]
            ELSE ParseDigitsLenient(Tail(s), next, sign, lo, hi)

\* The digit loop of core::num's from_str_radix: the value so far times ten,
\* plus or minus the digit; a checked step that leaves lo..hi is an error.
RECURSIVE ParseDigits(_, _, _, _, _)
ParseDigits(s, acc, sign, lo, hi) ==
    IF s = <<>> THEN [ok |-> TRUE, n |-> acc]
    ELSE IF ~IsDigit(Head(s)) THEN [ok |-> FALSE, n |-> 0]
    ELSE LET next == acc * 10 + sign * DigitValue(Head(s))
         IN IF next < lo \/ next > hi THEN [ok |-> FALSE, n |-> 0]
            ELSE ParseDigits(Tail(s), next, sign, lo, hi)

\* <integer as FromStr>::from_str: an optional sign ('-' only for a signed
\* type), then at least one digit, and the value within the type's range.
ParseInteger(s, signed, lo, hi) ==
    IF s = <<>> THEN [ok |-> FALSE, n |-> 0]
    ELSE IF Len(s) = 1 /\ Head(s) \in {"+", "-"} THEN [ok |-> FALSE, n |-> 0]
    ELSE IF Head(s) = "+" THEN ParseDigits(Tail(s), 0, 1, lo, hi)
    ELSE IF Head(s) = "-" /\ signed THEN ParseDigits(Tail(s), 0, -1, lo, hi)
    ELSE ParseDigits(s, 0, 1, lo, hi)

\* The largest ttl a modelled line can spell (the texts are far shorter than
\* the 20 digits of u64::MAX, so the parse never overflows).
TtlTextMax == 999999

\* ------------------------------------------------------------- the decoder
None == [some |-> FALSE, v |-> 0]
Some(n) == [some |-> TRUE, v |-> n]

Command(op, t, key, value, keys, mode, ttl) ==
    [op |-> op, t |-> t, key |-> key, value |-> value, keys |-> keys,
     mode |-> mode, ttl |-> ttl]

NoCommand == Command("None", <<>>, <<>>, <<>>, <<>>, "Glob", None)

CmdOk(c) == [ok |-> TRUE, cmd |-> c, err |-> "None"]
CmdErr(e) == [ok |-> FALSE, cmd |-> NoCommand, err |-> e]

\* The MODE arm with a third variant that spells TRIE.
MatchModeWithTrie(mode) ==
    CASE mode = W_GLOB -> CmdOk(Command("Mode", <<>>, <<>>, <<>>, <<>>, "Glob", None))
      [] mode = W_REGEX -> CmdOk(Command("Mode", <<>>, <<>>, <<>>, <<>>, "Regex", None))
      [] mode = W_TRIE -> CmdOk(Command("Mode", <<>>, <<>>, <<>>, <<>>, "Trie", None))
      [] OTHER -> CmdErr("NoValidModeSpecified")

\* The match of the MODE arm of Command::from_vec on the uppercased word
\* without its last byte: GLOB and REGEX are the only names it knows.
MatchMode(mode) ==
    CASE mode = W_GLOB -> CmdOk(Command("Mode", <<>>, <<>>, <<>>, <<>>, "Glob", None))
      [] mode = W_REGEX -> CmdOk(Command("Mode", <<>>, <<>>, <<>>, <<>>, "Regex", None))
      [] OTHER -> CmdErr("NoValidModeSpecified")

\* The ADD arm of Command::from_vec: ADD <type> <key> [<key>...].
FromVecAdd(tokens) ==
    IF Len(tokens) < 2 THEN CmdErr("ArgumentMismatch")
    ELSE CmdOk(Command("Add", Lossy(tokens[1]), <<>>, <<>>,
                       LossyAll(Tail(tokens)), "Glob", None))

\* Command::from_vec
from_vec(v) ==
    LET trimmed_v == PopNewline(v)
        all == Split(trimmed_v)
        cmd == PopNewline(ToAsciiUppercase(all[1]))
        tokens == Tail(all)
        tok_len == Len(tokens)
    IN  CASE cmd = W_SET ->
               IF tok_len < 3 THEN CmdErr("ArgumentMismatch")
               ELSE CmdOk(Command("Set", Lossy(tokens[1]), Lossy(tokens[2]),
                                  Join(SubSeq(tokens, 3, tok_len)), <<>>, "Glob", None))
          [] cmd = W_GET ->
               IF tok_len # 2 THEN CmdErr("ArgumentMismatch")
               ELSE CmdOk(Command("Get", Lossy(tokens[1]), Lossy(tokens[2]),
                                  <<>>, <<>>, "Glob", None))
          [] cmd = W_DEL ->
               IF tok_len < 1 THEN CmdErr("ArgumentMismatch")
               ELSE CmdOk(Command("Del", <<>>, <<>>, <<>>, LossyAll(tokens), "Glob", None))
          [] cmd = W_KEYS ->
               IF tok_len # 1 THEN CmdErr("ArgumentMismatch")
               ELSE CmdOk(Command("Keys", <<>>, Lossy(tokens[1]), <<>>, <<>>, "Glob", None))
          [] cmd = W_MODE ->
               IF tok_len # 1 THEN CmdErr("ArgumentMismatch")
               ELSE MatchMode(Pop(ToAsciiUppercase(tokens[1])))
          [] cmd = W_TTL ->
               CASE tok_len = 1 ->
                      CmdOk(Command("TtlGet", <<>>, Lossy(tokens[1]), <<>>, <<>>, "Glob", None))
                 [] tok_len = 2 ->
                      LET parsed == ParseInteger(Lossy(tokens[2]), FALSE, 0, TtlTextMax)
                      IN  IF parsed.ok
                          THEN CmdOk(Command("TtlSet", <<>>, Lossy(tokens[1]), <<>>, <<>>,
                                             "Glob", Some(parsed.n)))
                          ELSE CmdErr("InvalidTtlSpecified")
                 [] OTHER -> CmdErr("ArgumentMismatch")
          [] cmd = W_DELTTL ->
               IF tok_len = 1
               THEN CmdOk(Command("TtlSet", <<>>, Lossy(tokens[1]), <<>>, <<>>, "Glob", None))
               ELSE CmdErr("ArgumentMismatch")
          [] cmd = W_EXISTS ->
               IF tok_len # 1 THEN CmdErr("ArgumentMismatch")
               ELSE CmdOk(Command("Exists", <<>>, Lossy(tokens[1]), <<>>, <<>>, "Glob", None))
          [] cmd = W_TYPE ->
               IF tok_len # 1 THEN CmdErr("ArgumentMismatch")
               ELSE CmdOk(Command("Type", <<>>, Lossy(tokens[1]), <<>>, <<>>, "Glob", None))
          [] cmd = W_QUIT -> CmdOk(Command("Quit", <<>>, <<>>, <<>>, <<>>, "Glob", None))
          [] cmd = W_SAVE -> CmdOk(Command("Save", <<>>, <<>>, <<>>, <<>>, "Glob", None))
          [] cmd = W_ADD -> FromVecAdd(tokens)
          [] OTHER -> CmdErr("Unknown")

\* --------------------------------------------------------- values and kinds
\* A stored value is a Box<dyn Any>: its kind is the Rust type it was boxed as.
\* The model covers the arms i8, u8 and String of the dispatcher, and the
\* fallback arm that stores a Vec<u8>.
Value(kind, n, s) == [kind |-> kind, n |-> n, s |-> s]
NoValue == Value("None", 0, <<>>)

ScalarKinds == {"i8", "u8", "f32", "String"}
Kinds == ScalarKinds \cup {"Vec<u8>"}

\* std::any::type_name::<T>()
type_name(kind) ==
    CASE kind = "i8" -> "i8"
      [] kind = "u8" -> "u8"
      [] kind = "f32" -> "f32"
      [] kind = "String" -> "alloc::string::String"
      [] kind = "Vec<u8>" -> "alloc::vec::Vec<u8>"

\* The integers an f32 holds exactly; sums of such values within the range are
\* exact.
F32Exact == 2 ^ 24

\* text.parse::<T>().  For f32 the model covers the texts the lines carry: an
\* optional sign and digits (a whole number within F32Exact), and texts with
\* a character that no float literal has.
parse(kind, text) ==
    CASE kind = "i8" ->
           LET r == ParseInteger(text, TRUE, I8Min, I8Max)
           IN  [ok |-> r.ok, value |-> IF r.ok THEN Value("i8", r.n, <<>>) ELSE NoValue]
      [] kind = "u8" ->
           LET r == ParseInteger(text, FALSE, 0, U8Max)
           IN  [ok |-> r.ok, value |-> IF r.ok THEN Value("u8", r.n, <<>>) ELSE NoValue]
      [] kind = "f32" ->
           LET r == ParseInteger(text, TRUE, -F32Exact, F32Exact)
           IN  [ok |-> r.ok, value |-> IF r.ok THEN Value("f32", r.n, <<>>) ELSE NoValue]
      [] kind = "String" -> [ok |-> TRUE, value |-> Value("String", 0, text)]

\* ---------------------------------------------------------------- messages
Message(kind, key, text, ty, user) ==
    [kind |-> kind, key |-> key, text |-> text, ty |-> ty, user |-> user]
NoMessage == Message("None", <<>>, <<>>, "", <<>>)
SetKey(key, ty, user) == Message("SetKey", key, <<>>, ty, user)
KeyNotFound(key) == Message("KeyNotFound", key, <<>>, "", <<>>)
TypeMismatch(key, ty) == Message("TypeMismatch", key, <<>>, ty, <<>>)
ParseError(key, text, ty) == Message("ParseError", key, text, ty, <<>>)
AddOverflowError == Message("AddOverflowError", <<>>, <<>>, "", <<>>)

Ok(value, msg) == [ok |-> TRUE, value |-> value, msg |-> msg]
Err(msg) == [ok |-> FALSE, value |-> NoValue, msg |-> msg]

\* ------------------------------------------------------------------ Record
Record(value, ttl_value, ttl_start, stored, desired) ==
    [value |-> value, ttl |-> ttl_value, ttl_start |-> ttl_start,
     type_name |-> stored, desired_type_name |-> desired]

\* SystemTime::now().duration_since(ttl_start).unwrap_or_default().as_secs()
Elapsed(record, clock) ==
    IF clock >= record.ttl_start THEN clock - record.ttl_start ELSE 0

\* Record::is_expired
is_expired(record, clock) ==
    IF record.ttl.some THEN Elapsed(record, clock) >= record.ttl.v ELSE FALSE

\* Record::get_ttl that answers the ttl as it was set, whatever time has passed.
get_ttl_as_set(record, clock) ==
    IF record.ttl.some THEN Some(record.ttl.v) ELSE None

\* Record::get_ttl without the test duration >= ttl before the subtraction.
get_ttl_unclamped(record, clock) ==
    IF record.ttl.some THEN Some(record.ttl.v - Elapsed(record, clock)) ELSE None

\* Record::get_ttl
get_ttl(record, clock) ==
    IF record.ttl.some
    THEN LET duration == Elapsed(record, clock)
         IN  IF duration >= record.ttl.v THEN Some(0)
             ELSE Some(record.ttl.v - duration)
    ELSE None

\* ---------------------------------------------------------------- SmirkMap
\* The key map is a function from the live keys to their records.
EmptyMap == [k \in {} |-> NoValue]

MapInsert(m, key, record) ==
    [k \in DOMAIN m \cup {key} |-> IF k = key THEN record ELSE m[k]]

MapRemove(m, key) == [k \in DOMAIN m \ {key} |-> m[k]]

\* SmirkMap::get with the downcast replaced by a cast that always succeeds.
get_any_kind(m, kind, key) ==
    IF key \in DOMAIN m THEN [ok |-> TRUE, value |-> m[key].value, msg |-> NoMessage]
    ELSE [ok |-> FALSE, value |-> NoValue, msg |-> KeyNotFound(key)]

\* SmirkMap::get::<T>: the downcast succeeds only for the boxed type itself.
get(m, kind, key) ==
    IF key \in DOMAIN m
    THEN IF m[key].value.kind = kind
         THEN Ok(m[key].value, NoMessage)
         ELSE Err(TypeMismatch(key, type_name(kind)))
    ELSE Err(KeyNotFound(key))

\* SmirkMap::binary_set that stores the bytes through String::from_utf8_lossy,
\* as set does before it parses.
binary_set_lossy(m, key, value, desired_type_name, clock) ==
    [map |-> MapInsert(m, key, Record(Value("Vec<u8>", 0, Lossy(value)), None,
                                      clock, "Vec<u8>", desired_type_name)),
     res |-> Ok(NoValue, SetKey(key, "Vec<u8>", desired_type_name))]

\* SmirkMap::binary_set that overwrites the value of a record in place and
\* keeps its ttl and ttl_start.
binary_set_in_place(m, key, value, desired_type_name, clock) ==
    [map |-> MapInsert(m, key,
                       IF key \in DOMAIN m
                       THEN Record(Value("Vec<u8>", 0, value), m[key].ttl,
                                   m[key].ttl_start, "Vec<u8>", desired_type_name)
                       ELSE Record(Value("Vec<u8>", 0, value), None, clock,
                                   "Vec<u8>", desired_type_name)),
     res |-> Ok(NoValue, SetKey(key, "Vec<u8>", desired_type_name))]

\* SmirkMap::binary_set
binary_set(m, key, value, desired_type_name, clock) ==
    [map |-> MapInsert(m, key, Record(Value("Vec<u8>", 0, value), None, clock,
                                      "Vec<u8>", desired_type_name)),
     res |-> Ok(NoValue, SetKey(key, "Vec<u8>", desired_type_name))]

\* SmirkMap::set that keeps the declared type of a record it replaces.
set_keeping_declared_type(m, kind, key, value, desired_type_name, clock) ==
    LET result == parse(kind, Lossy(value))
        declared == IF key \in DOMAIN m THEN m[key].desired_type_name
                    ELSE desired_type_name
    IN  IF result.ok
        THEN [map |-> MapInsert(m, key, Record(result.value, None, clock,
                                               type_name(kind), declared)),
              res |-> Ok(NoValue, SetKey(key, type_name(kind), declared))]
        ELSE [map |-> m,
              res |-> Err(ParseError(key, Lossy(value), type_name(kind)))]

\* SmirkMap::set with map.entry(key).or_insert(record) in place of map.insert.
set_or_insert(m, kind, key, value, desired_type_name, clock) ==
    LET result == parse(kind, Lossy(value))
    IN  IF result.ok
        THEN [map |-> IF key \in DOMAIN m THEN m
                      ELSE MapInsert(m, key, Record(result.value, None, clock,
                                                    type_name(kind), desired_type_name)),
              res |-> Ok(NoValue, SetKey(key, type_name(kind), desired_type_name))]
        ELSE [map |-> m,
              res |-> Err(ParseError(key, Lossy(value), type_name(kind)))]

\* SmirkMap::set::<T>
set(m, kind, key, value, desired_type_name, clock) ==
    LET result == parse(kind, Lossy(value))
    IN  IF result.ok
        THEN [map |-> MapInsert(m, key, Record(result.value, None, clock,
                                               type_name(kind), desired_type_name)),
              res |-> Ok(NoValue, SetKey(key, type_name(kind), desired_type_name))]
        ELSE [map |-> m,
              res |-> Err(ParseError(key, Lossy(value), type_name(kind)))]

\* SmirkMap::exists
exists(m, key) == key \in DOMAIN m

\* SmirkMap::get_record
get_record(m, key) ==
    IF exists(m, key) THEN [ok |-> TRUE, record |-> m[key], msg |-> NoMessage]
    ELSE [ok |-> FALSE, record |-> Record(NoValue, None, 0, "", <<>>),
          msg |-> KeyNotFound(key)]

\* SmirkMap::del that answers 1 whether or not the key was there.
del_always_one(m, key) ==
    [map |-> [k \in DOMAIN m \ {key} |-> m[k]], n |-> 1]

\* SmirkMap::del
del(m, key) ==
    IF key \in DOMAIN m THEN [map |-> MapRemove(m, key), n |-> 1]
    ELSE [map |-> m, n |-> 0]

\* SmirkMap::ttl that answers "no ttl" for a key that is not in the map.
ttl_or_default(m, key, clock) ==
    IF key \in DOMAIN m THEN [ok |-> TRUE, ttl |-> get_ttl(m[key], clock)]
    ELSE [ok |-> TRUE, ttl |-> None]

\* SmirkMap::ttl
ttl(m, key, clock) ==
    IF key \in DOMAIN m THEN [ok |-> TRUE, ttl |-> get_ttl(m[key], clock)]
    ELSE [ok |-> FALSE, ttl |-> None]

\* SmirkMap::set_ttl that also restarts the countdown, at UNIX_EPOCH.
\* set_ttl that makes a record for a key that has none.
set_ttl_inserting(m, key, new_ttl) ==
    IF key \in DOMAIN m THEN [m EXCEPT ![key].ttl = new_ttl]
    ELSE MapInsert(m, key, Record(NoValue, new_ttl, 0, "", ""))

set_ttl_restarting(m, key, new_ttl) ==
    IF key \in DOMAIN m
    THEN [m EXCEPT ![key].ttl = new_ttl, ![key].ttl_start = 0]
    ELSE m

\* SmirkMap::set_ttl
set_ttl(m, key, new_ttl) ==
    IF key \in DOMAIN m THEN [m EXCEPT ![key].ttl = new_ttl] ELSE m

\* SmirkMap::add with `continue` in place of the return for a key that get
\* does not answer: the key is skipped.
\* add with the range check made once, on the total of all the keys.
RECURSIVE AddFromCheckingTotal(_, _, _, _, _, _)
AddFromCheckingTotal(m, kind, keys, total, lo, hi) ==
    IF keys = <<>>
    THEN IF total >= lo /\ total <= hi
         THEN Ok(Value(kind, total, <<>>), NoMessage)
         ELSE Err(AddOverflowError)
    ELSE LET val == get(m, kind, Head(keys))
         IN  IF val.ok
             THEN AddFromCheckingTotal(m, kind, Tail(keys), val.value.n + total, lo, hi)
             ELSE Err(ParseError(Head(keys), <<>>, type_name(kind)))

RECURSIVE AddFromSkipping(_, _, _, _, _, _)
AddFromSkipping(m, kind, keys, total, lo, hi) ==
    IF keys = <<>> THEN Ok(Value(kind, total, <<>>), NoMessage)
    ELSE LET val == get(m, kind, Head(keys))
         IN  IF val.ok
             THEN LET t == val.value.n + total
                  IN  IF t >= lo /\ t <= hi
                      THEN AddFromSkipping(m, kind, Tail(keys), t, lo, hi)
                      ELSE Err(AddOverflowError)
             ELSE AddFromSkipping(m, kind, Tail(keys), total, lo, hi)

\* SmirkMap::add::<T>: checked_add over the keys in order, within lo..hi.
RECURSIVE AddFrom(_, _, _, _, _, _)
AddFrom(m, kind, keys, total, lo, hi) ==
    IF keys = <<>> THEN Ok(Value(kind, total, <<>>), NoMessage)
    ELSE LET val == get(m, kind, Head(keys))
         IN  IF val.ok
             THEN LET t == val.value.n + total
                  IN  IF t >= lo /\ t <= hi
                      THEN AddFrom(m, kind, Tail(keys), t, lo, hi)
                      ELSE Err(AddOverflowError)
             ELSE Err(ParseError(Head(keys), <<>>, type_name(kind)))

\* SmirkMap::add with wrapping_add in place of checked_add.
RECURSIVE AddWrappingFrom(_, _, _, _, _, _)
AddWrappingFrom(m, kind, keys, total, lo, hi) ==
    IF keys = <<>> THEN Ok(Value(kind, total, <<>>), NoMessage)
    ELSE LET val == get(m, kind, Head(keys))
         IN  IF val.ok
             THEN AddWrappingFrom(m, kind, Tail(keys),
                                  lo + ((val.value.n + total - lo) % (hi - lo + 1)),
                                  lo, hi)
             ELSE Err(ParseError(Head(keys), <<>>, type_name(kind)))

add_wrapping(m, kind, keys) ==
    CASE kind = "i8" -> AddWrappingFrom(m, kind, keys, 0, I8Min, I8Max)
      [] kind = "u8" -> AddWrappingFrom(m, kind, keys, 0, 0, U8Max)

add(m, kind, keys) ==
    CASE kind = "i8" -> AddFrom(m, kind, keys, 0, I8Min, I8Max)
      [] kind = "u8" -> AddFrom(m, kind, keys, 0, 0, U8Max)

\* SmirkMap::add_float::<T>: total + val over the keys in order.
RECURSIVE AddFloatFrom(_, _, _, _)
AddFloatFrom(m, kind, keys, total) ==
    IF keys = <<>> THEN Ok(Value(kind, total, <<>>), NoMessage)
    ELSE LET val == get(m, kind, Head(keys))
         IN  IF val.ok
             THEN AddFloatFrom(m, kind, Tail(keys), total + val.value.n)
             ELSE Err(ParseError(Head(keys), <<>>, type_name(kind)))

add_float(m, kind, keys) == AddFloatFrom(m, kind, keys, 0)

\* -------------------------------------------------------------------- Trie
\* A trie is a function from the paths of its nodes (the characters from the
\* root, which is the empty path) to their fields; the children map of a
\* node is the set of paths one character longer.
\* A counter is a u64: the model keeps the representative of its value
\* modulo 2^64 that is nearest zero, so -1 stands for u64::MAX.
Node(has_key_ending_here, counter) ==
    [has_key_ending_here |-> has_key_ending_here, counter |-> counter]

\* Trie::default
TrieDefault == [p \in {<<>>} |-> Node(FALSE, InitialCounter)]

IsPrefix(p, q) == Len(p) <= Len(q) /\ SubSeq(q, 1, Len(p)) = p

Children(t, p) == {q \in DOMAIN t : Len(q) = Len(p) + 1 /\ IsPrefix(p, q)}

\* Trie::insert on the node at path p.  String::remove(0) panics on an empty
\* string; the result says whether the call panicked and what it had written.
RECURSIVE InsertAt(_, _, _)
InsertAt(t, p, input) ==
    IF input = <<>> THEN [trie |-> t, panic |-> TRUE]
    ELSE LET working_char == Head(input)
             remaining_string == Tail(input)
             q == Append(p, working_char)
             child == IF q \in DOMAIN t THEN t[q]
                      ELSE Node(remaining_string = <<>>, InitialCounter)
             updated == Node(remaining_string = <<>>, child.counter + 1)
             t1 == [x \in DOMAIN t \cup {q} |-> IF x = q THEN updated ELSE t[x]]
         IN  IF remaining_string = <<>>
             THEN InsertAt(t1, q, remaining_string)
             ELSE [trie |-> t1, panic |-> FALSE]

insert(t, input) == InsertAt(t, <<>>, input)

\* The walk of Trie::remove: the path of the node the whole input leads to,
\* or no path when a character has no child.
RECURSIVE Walk(_, _, _)
Walk(t, p, remaining_string) ==
    IF remaining_string = <<>> THEN [found |-> TRUE, path |-> p]
    ELSE LET q == Append(p, Head(remaining_string))
         IN  IF q \in DOMAIN t THEN Walk(t, q, Tail(remaining_string))
             ELSE [found |-> FALSE, path |-> p]

\* Trie::remove that decrements and prunes nothing.
remove_without_pruning(t, input, overflow_checks) ==
    LET w == Walk(t, <<>>, input)
    IN  IF ~w.found THEN [trie |-> t, panic |-> FALSE]
        ELSE IF t[w.path].counter = 0 /\ overflow_checks
        THEN [trie |-> t, panic |-> TRUE]
        ELSE [trie |-> [t EXCEPT ![w.path].counter = @ - 1], panic |-> FALSE]

\* Trie::remove.  counter -= 1 on a zero counter panics when the build checks
\* overflow and wraps to u64::MAX when it does not.
remove(t, input, overflow_checks) ==
    LET w == Walk(t, <<>>, input)
    IN  IF ~w.found THEN [trie |-> t, panic |-> FALSE]
        ELSE IF t[w.path].counter = 0 /\ overflow_checks
        THEN [trie |-> t, panic |-> TRUE]
        ELSE LET t1 == [t EXCEPT ![w.path].counter = @ - 1]
                 children_to_remove == {q \in Children(t1, w.path) : t1[q].counter = 0}
                 kept == {x \in DOMAIN t1 :
                            \A q \in children_to_remove : ~IsPrefix(q, x)}
             IN  [trie |-> [x \in kept |-> t1[x]], panic |-> FALSE]

\* Trie::get_keys_with_prefix: the characters of the children of the node the
\* prefix leads to (one-character strings), nothing when the path is absent.
get_keys_with_prefix(t, prefix) ==
    LET w == Walk(t, <<>>, prefix)
    IN  IF w.found THEN {q[Len(q)] : q \in Children(t, w.path)} ELSE {}

\* --------------------------------------------------------- key search (KEYS)
\* glob::Pattern::new over the patterns the model sends: literals, '?', '*'
\* and an opening bracket that nothing closes, which is an invalid range.
GlobValid(pattern) == \A i \in DOMAIN pattern : pattern[i] # "["

\* glob::Pattern::matches
RECURSIVE GlobMatches(_, _)
GlobMatches(pattern, s) ==
    IF pattern = <<>> THEN s = <<>>
    ELSE IF Head(pattern) = "*"
    THEN \E i \in 0..Len(s) : GlobMatches(Tail(pattern), SubSeq(s, i + 1, Len(s)))
    ELSE /\ s # <<>>
         /\ Head(pattern) = "?" \/ Head(pattern) = Head(s)
         /\ GlobMatches(Tail(pattern), Tail(s))

\* regex::Regex::new over the patterns the model sends: literals, '.', a
\* postfix '*', a leading '^', a trailing '$'; an unclosed group, an unclosed
\* character class and a leading repetition are syntax errors.
RegexValid(pattern) ==
    /\ \A i \in DOMAIN pattern : pattern[i] \notin {"(", "["}
    /\ pattern = <<>> \/ Head(pattern) # "*"

RECURSIVE RegexHere(_, _)
RegexHere(pattern, s) ==
    IF pattern = <<>> THEN TRUE
    ELSE IF Len(pattern) >= 2 /\ pattern[2] = "*"
    THEN \E i \in 0..Len(s) :
            /\ \A j \in 1..i : pattern[1] = "." \/ pattern[1] = s[j]
            /\ RegexHere(SubSeq(pattern, 3, Len(pattern)), SubSeq(s, i + 1, Len(s)))
    ELSE IF pattern = <<"$">> THEN s = <<>>
    ELSE /\ s # <<>>
         /\ Head(pattern) = "." \/ Head(pattern) = Head(s)
         /\ RegexHere(Tail(pattern), Tail(s))

\* regex::Regex::is_match that reads a leading '^' as nothing: the rest of the
\* pattern may match anywhere in the text.
RegexIsMatchUnanchored(pattern, s) ==
    LET rest == IF pattern # <<>> /\ Head(pattern) = "^" THEN Tail(pattern)
                ELSE pattern
    IN  \E i \in 0..Len(s) : RegexHere(rest, SubSeq(s, i + 1, Len(s)))

\* regex::Regex::is_match: a match anywhere in the text.
RegexIsMatch(pattern, s) ==
    IF pattern # <<>> /\ Head(pattern) = "^" THEN RegexHere(Tail(pattern), s)
    ELSE \E i \in 0..Len(s) : RegexHere(pattern, SubSeq(s, i + 1, Len(s)))

\* --------------------------------------------------------------- responses
\* What a command wrote to its stream: the text (by its parts) and whether it
\* ends with a newline.
Response(kind, msg, value, n, keys, nl) ==
    [kind |-> kind, msg |-> msg, value |-> value, n |-> n, keys |-> keys, nl |-> nl]
NoResponse == Response("None", NoMessage, NoValue, 0, {}, FALSE)
\* SmirkMessages::to_string: every message ends with a newline.
Written(msg) == Response("Message", msg, NoValue, 0, {}, TRUE)
\* Streamable::write_to_stream
Streamed(value) == Response("Value", NoMessage, value, 0, {}, TRUE)

Outcome(m, t, mode, resp, panic, shut) ==
    [map |-> m, trie |-> t, mode |-> mode, resp |-> resp, panic |-> panic,
     shut |-> shut]

\* stream.write_all(..).unwrap() as the last step of a command: on a stream
\* that was shut down the write fails and the unwrap panics.
Write(m, t, mode, resp, shut) ==
    IF shut THEN Outcome(m, t, mode, NoResponse, TRUE, shut)
    ELSE Outcome(m, t, mode, resp, FALSE, shut)

\* The match on the type tag in process_command.
TagKind(tag) ==
    CASE tag = T_i8 -> "i8"
      [] tag = T_u8 -> "u8"
      [] tag = T_f32 -> "f32"
      [] tag = T_String -> "String"
      [] OTHER -> "Vec<u8>"

\* get_value_and_write_to_stream with smirk_map.get(..).unwrap().
get_value_unwrap(m, t, mode, kind, key, shut) ==
    LET result == get(m, kind, key)
    IN  IF result.ok THEN Write(m, t, mode, Streamed(result.value), shut)
        ELSE Outcome(m, t, mode, NoResponse, TRUE, shut)

\* get_value_and_write_to_stream
get_value_and_write_to_stream(m, t, mode, kind, key, shut) ==
    LET result == get(m, kind, key)
    IN  IF result.ok THEN Write(m, t, mode, Streamed(result.value), shut)
        ELSE Write(m, t, mode, Written(result.msg), shut)

\* set_value_and_write_to_stream with trie.insert moved before the match on
\* the result of set.
set_value_insert_first(m, t, mode, kind, key, value, tag, clock, shut) ==
    LET result == IF kind = "Vec<u8>" THEN binary_set(m, key, value, tag, clock)
                  ELSE set(m, kind, key, value, tag, clock)
        ins == insert(t, key)
    IN  IF ins.panic THEN Outcome(result.map, ins.trie, mode, NoResponse, TRUE, shut)
        ELSE Write(result.map, ins.trie, mode, Written(result.res.msg), shut)

\* set_value_and_write_to_stream and set_binary_value_and_write_to_stream
set_value_and_write_to_stream(m, t, mode, kind, key, value, tag, clock, shut) ==
    LET result == IF kind = "Vec<u8>" THEN binary_set(m, key, value, tag, clock)
                  ELSE set(m, kind, key, value, tag, clock)
    IN  IF result.res.ok
        THEN LET ins == insert(t, key)
             IN  IF ins.panic
                 THEN Outcome(result.map, ins.trie, mode, NoResponse, TRUE, shut)
                 ELSE Write(result.map, ins.trie, mode, Written(result.res.msg), shut)
        ELSE Write(result.map, t, mode, Written(result.res.msg), shut)

\* The sum of del over the keys with every listed key looked up in the map
\* as it was before the command: a key listed twice counts twice.
DelAllCountingListed(m, keys) ==
    [map |-> [k \in DOMAIN m \ {keys[i] : i \in DOMAIN keys} |-> m[k]],
     n |-> Cardinality({i \in DOMAIN keys : keys[i] \in DOMAIN m})]

\* keys.into_iter().map(|k| smirk_map.del(k)).sum()
RECURSIVE DelAll(_, _)
DelAll(m, keys) ==
    IF keys = <<>> THEN [map |-> m, n |-> 0]
    ELSE LET first == del(m, Head(keys))
             rest == DelAll(first.map, Tail(keys))
         IN  [map |-> rest.map, n |-> first.n + rest.n]

\* for key in keys { smirk_map.trie.remove(key); }
RECURSIVE RemoveAll(_, _, _)
RemoveAll(t, keys, overflow_checks) ==
    IF keys = <<>> THEN [trie |-> t, panic |-> FALSE]
    ELSE LET first == remove(t, Head(keys), overflow_checks)
         IN  IF first.panic THEN first
             ELSE RemoveAll(first.trie, Tail(keys), overflow_checks)

\* The Keys arm of process_command.
keys_and_write_to_stream(m, t, mode, pattern, shut) ==
    LET valid == CASE mode = "Glob" -> GlobValid(pattern)
                   [] mode = "Regex" -> RegexValid(pattern)
                   [] mode = "Trie" -> TRUE
        matching_keys ==
            CASE mode = "Glob" -> {k \in DOMAIN m : GlobMatches(pattern, k)}
              [] mode = "Regex" -> {k \in DOMAIN m : RegexIsMatch(pattern, k)}
              [] mode = "Trie" -> {<<c>> : c \in get_keys_with_prefix(t, pattern)}
    IN  IF ~valid THEN Outcome(m, t, mode, NoResponse, TRUE, shut)
        ELSE IF matching_keys = {}
        THEN Write(m, t, mode,
                   Response("NoMatches", KeyNotFound(pattern), NoValue, 0, {}, TRUE), shut)
        ELSE Write(m, t, mode,
                   Response("Keys", NoMessage, NoValue, 0, matching_keys, TRUE), shut)

\* add_and_write_to_stream and add_float_and_write_to_stream; the match of
\* the Add arm sends every tag that is no number type to the empty arm.
add_and_write_to_stream(m, t, mode, tag, keys, shut) ==
    IF tag \in {T_i8, T_u8, T_f32}
    THEN LET total == IF tag = T_f32 THEN add_float(m, TagKind(tag), keys)
                      ELSE add(m, TagKind(tag), keys)
         IN  IF total.ok
             THEN Write(m, t, mode,
                        Response("Total", NoMessage, total.value, 0, {}, FALSE), shut)
             ELSE Write(m, t, mode, Written(total.msg), shut)
    ELSE Outcome(m, t, mode, NoResponse, FALSE, shut)

\* The records of the store that have not expired.
Unexpired(m, clock) ==
    [k \in {x \in DOMAIN m : ~is_expired(m[x], clock)} |-> m[k]]

\* process_command on a store that drops its expired records before each
\* command.
process_command_expiring(cmd, m0, t, mode, clock, shut, overflow_checks) ==
    LET m == Unexpired(m0, clock) IN
    CASE cmd.op = "Set" ->
           set_value_and_write_to_stream(m, t, mode, TagKind(cmd.t), cmd.key,
                                         cmd.value, cmd.t, clock, shut)
      [] cmd.op = "Get" ->
           get_value_and_write_to_stream(m, t, mode, TagKind(cmd.t), cmd.key, shut)
      [] cmd.op = "Del" ->
           LET deleted == DelAll(m, cmd.keys)
               removed == RemoveAll(t, cmd.keys, overflow_checks)
           IN  IF removed.panic
               THEN Outcome(deleted.map, removed.trie, mode, NoResponse, TRUE, shut)
               ELSE Write(deleted.map, removed.trie, mode,
                          Response("Deleted", NoMessage, NoValue, deleted.n, {}, FALSE),
                          shut)
      [] cmd.op = "Keys" -> keys_and_write_to_stream(m, t, mode, cmd.key, shut)
      [] cmd.op = "Mode" -> Outcome(m, t, cmd.mode, NoResponse, FALSE, shut)
      [] cmd.op = "TtlSet" ->
           Outcome(set_ttl(m, cmd.key, cmd.ttl), t, mode, NoResponse, FALSE, shut)
      [] cmd.op = "TtlGet" ->
           LET smttl == ttl(m, cmd.key, clock)
           IN  IF smttl.ok
               THEN IF smttl.ttl.some
                    THEN Write(m, t, mode,
                               Response("Ttl", NoMessage, NoValue, smttl.ttl.v, {}, TRUE),
                               shut)
                    ELSE Write(m, t, mode,
                               Response("NoExpire", KeyNotFound(cmd.key), NoValue, 0, {},
                                        TRUE), shut)
               ELSE Write(m, t, mode,
                          Response("NoExist", KeyNotFound(cmd.key), NoValue, 0, {}, TRUE),
                          shut)
      [] cmd.op = "Exists" ->
           Write(m, t, mode,
                 Response("Exists", NoMessage, NoValue,
                          IF exists(m, cmd.key) THEN 1 ELSE 0, {}, TRUE), shut)
      [] cmd.op = "Type" ->
           LET result == get_record(m, cmd.key)
           IN  IF result.ok
               THEN Write(m, t, mode,
                          Response("Type",
                                   Message("Type", cmd.key, <<>>, result.record.type_name,
                                           result.record.desired_type_name),
                                   NoValue, 0, {}, TRUE), shut)
               ELSE Write(m, t, mode, Written(result.msg), shut)
      [] cmd.op = "Save" ->
           Outcome(m, t, mode,
                   IF shut THEN NoResponse
                   ELSE Response("Saving", NoMessage, NoValue, 0, {}, FALSE),
                   TRUE, shut)
      [] cmd.op = "Quit" ->
           IF shut THEN Outcome(m, t, mode, NoResponse, TRUE, shut)
           ELSE Outcome(m, t, mode, Response("Bye", NoMessage, NoValue, 0, {}, TRUE),
                        FALSE, TRUE)
      [] cmd.op = "Add" -> add_and_write_to_stream(m, t, mode, cmd.t, cmd.keys, shut)

\* process_command
process_command(cmd, m, t, mode, clock, shut, overflow_checks) ==
    CASE cmd.op = "Set" ->
           set_value_and_write_to_stream(m, t, mode, TagKind(cmd.t), cmd.key,
                                         cmd.value, cmd.t, clock, shut)
      [] cmd.op = "Get" ->
           get_value_and_write_to_stream(m, t, mode, TagKind(cmd.t), cmd.key, shut)
      [] cmd.op = "Del" ->
           LET deleted == DelAll(m, cmd.keys)
               removed == RemoveAll(t, cmd.keys, overflow_checks)
           IN  IF removed.panic
               THEN Outcome(deleted.map, removed.trie, mode, NoResponse, TRUE, shut)
               ELSE Write(deleted.map, removed.trie, mode,
                          Response("Deleted", NoMessage, NoValue, deleted.n, {}, FALSE),
                          shut)
      [] cmd.op = "Keys" -> keys_and_write_to_stream(m, t, mode, cmd.key, shut)
      [] cmd.op = "Mode" -> Outcome(m, t, cmd.mode, NoResponse, FALSE, shut)
      [] cmd.op = "TtlSet" ->
           Outcome(set_ttl(m, cmd.key, cmd.ttl), t, mode, NoResponse, FALSE, shut)
      [] cmd.op = "TtlGet" ->
           LET smttl == ttl(m, cmd.key, clock)
           IN  IF smttl.ok
               THEN IF smttl.ttl.some
                    THEN Write(m, t, mode,
                               Response("Ttl", NoMessage, NoValue, smttl.ttl.v, {}, TRUE),
                               shut)
                    ELSE Write(m, t, mode,
                               Response("NoExpire", KeyNotFound(cmd.key), NoValue, 0, {},
                                        TRUE), shut)
               ELSE Write(m, t, mode,
                          Response("NoExist", KeyNotFound(cmd.key), NoValue, 0, {}, TRUE),
                          shut)
      [] cmd.op = "Exists" ->
           Write(m, t, mode,
                 Response("Exists", NoMessage, NoValue,
                          IF exists(m, cmd.key) THEN 1 ELSE 0, {}, TRUE), shut)
      [] cmd.op = "Type" ->
           LET result == get_record(m, cmd.key)
           IN  IF result.ok
               THEN Write(m, t, mode,
                          Response("Type",
                                   Message("Type", cmd.key, <<>>, result.record.type_name,
                                           result.record.desired_type_name),
                                   NoValue, 0, {}, TRUE), shut)
               ELSE Write(m, t, mode, Written(result.msg), shut)
      [] cmd.op = "Save" ->
           Outcome(m, t, mode,
                   IF shut THEN NoResponse
                   ELSE Response("Saving", NoMessage, NoValue, 0, {}, FALSE),
                   TRUE, shut)
      [] cmd.op = "Quit" ->
           IF shut THEN Outcome(m, t, mode, NoResponse, TRUE, shut)
           ELSE Outcome(m, t, mode, Response("Bye", NoMessage, NoValue, 0, {}, TRUE),
                        FALSE, TRUE)
      [] cmd.op = "Add" -> add_and_write_to_stream(m, t, mode, cmd.t, cmd.keys, shut)

\* ------------------------------------------------------- lines of the clients
Line(tokens) == Join(tokens) \o <<NL>>

K_ab == <<"a", "b">>
K_ba == <<"b", "a">>
K_a == <<"a">>
K_empty == <<>>
K_ac == <<"a", "c">>

\* The patterns of KEYS: a glob and a regular expression for "starts with a".
P_GlobA == <<"a", "*">>
P_RegexA == <<"^", "a", ".", "*", "$">>
\* An unclosed character class, which neither glob nor regex accepts, and an
\* unclosed group, which glob reads as a literal.
P_Class == <<"[", "a">>
P_Group == <<"(", "a">>

\* REGEX with one more byte before the newline.
W_REGEXX == <<"R", "E", "G", "E", "X", "X">>
W_TRIEX == <<"T", "R", "I", "E", "X">>

\* Typed reads and writes of one key.
StoreLines ==
    { Line(<<W_SET, T_i8, K_ab, <<"1">>>>),
      Line(<<W_SET, T_i8, K_ab, <<"x">>>>),
      Line(<<W_SET, T_u8, K_ab, <<"2", "0", "0">>>>),
      Line(<<W_SET, T_String, K_ab, <<"x", BadByte>>, <<"y">>>>),
      Line(<<W_SET, T_blob, K_ab, <<"x", BadByte>>>>),
      Line(<<W_GET, T_i8, K_ab>>),
      Line(<<W_GET, T_u8, K_ab>>),
      Line(<<W_GET, T_String, K_ab>>),
      Line(<<W_GET, T_raw, K_ab>>),
      Line(<<W_DEL, K_ab>>),
      Line(<<W_DEL, K_ab, K_ab>>),
      Line(<<W_TTL, K_ab, <<"1">>>>),
      Line(<<W_TTL, K_ab>>),
      Line(<<W_TYPE, K_ab>>),
      Line(<<W_EXISTS, K_ab>>) }

\* Keys of two, one and no characters, set and deleted.
TrieLines ==
    { Line(<<W_SET, T_String, K_ab, <<"x">>>>),
      Line(<<W_SET, T_String, K_ba, <<"x">>>>),
      Line(<<W_SET, T_String, K_a, <<"x">>>>),
      Line(<<W_SET, T_String, K_empty, <<"x">>>>),
      Line(<<W_DEL, K_ab>>),
      Line(<<W_DEL, K_a>>),
      Line(<<W_DEL, K_empty>>),
      Line(<<W_DEL, K_ab, K_ba>>),
      Line(<<W_EXISTS, K_ab>>) }

\* Commands that end in a store-level error, their neighbours, and a line
\* that does not decode.
ErrorLines ==
    { Line(<<W_SET, T_i8, K_ba, <<"1", "0", "0">>>>),
      Line(<<W_SET, T_i8, K_ba, <<"x">>>>),
      Line(<<W_GET, T_u8, K_ba>>),
      Line(<<W_GET, T_i8, K_ab>>),
      Line(<<W_TYPE, K_ab>>),
      Line(<<W_TTL, K_ba>>),
      Line(<<W_ADD, T_i8, K_ba, K_ba>>),
      Line(<<W_ADD, T_i8, K_ba, K_ab>>),
      Line(<<W_EXISTS, K_ba>>),
      Line(<<<<"n", "o", "p", "e">>>>) }

\* Numbers of three types under two keys, for the sums of add and add_float.
AddLines ==
    { Line(<<W_SET, T_i8, K_ab, <<"1", "0", "0">>>>),
      Line(<<W_SET, T_i8, K_ba, <<"1", "0", "0">>>>),
      Line(<<W_SET, T_i8, K_ba, <<"-", "1", "0", "0">>>>),
      Line(<<W_SET, T_u8, K_ab, <<"2", "0", "0">>>>),
      Line(<<W_SET, T_f32, K_ab, <<"1">>>>),
      Line(<<W_SET, T_f32, K_ba, <<"2">>>>),
      Line(<<W_DEL, K_ba>>) }

\* A record, ttls shorter and longer than a step of the clock, and the
\* commands that read the record.
TtlLines ==
    { Line(<<W_SET, T_i8, K_ab, <<"1">>>>),
      Line(<<W_SET, T_String, K_ab, <<"x">>>>),
      Line(<<W_TTL, K_ab, <<"2">>>>),
      Line(<<W_TTL, K_ab, <<"5">>>>),
      Line(<<W_DELTTL, K_ab>>),
      Line(<<W_TTL, K_ab>>),
      Line(<<W_GET, T_i8, K_ab>>),
      Line(<<W_EXISTS, K_ab>>),
      Line(<<W_DEL, K_ab>>),
      Line(<<W_TTL, K_ba, <<"2">>>>) }

\* Two clients and the commands that end a connection.
SessionLines ==
    { Line(<<W_SET, T_i8, K_ab, <<"1">>>>),
      Line(<<W_SET, T_i8, K_ba, <<"1", "0", "0">>>>),
      Line(<<W_SET, T_String, K_a, <<"x">>>>),
      Line(<<W_QUIT>>),
      Line(<<W_SAVE>>) }

\* Keys set and deleted under either search mode, and the two patterns for
\* the keys that start with "a".
KeysLines ==
    { Line(<<W_SET, T_i8, K_ab, <<"1">>>>),
      Line(<<W_SET, T_i8, K_ba, <<"1">>>>),
      Line(<<W_SET, T_String, K_ac, <<"x">>>>),
      Line(<<W_DEL, K_ab>>),
      Line(<<W_DEL, K_ab, K_ba, K_ab>>),
      Line(<<W_KEYS, P_GlobA>>),
      Line(<<W_KEYS, P_RegexA>>),
      Line(<<W_MODE, W_REGEX>>) }

\* Lines that do not decode: an unknown command word, an empty line, a GET
\* without its key, a mode that does not exist, a ttl that is not a number.
W_NOPE == <<"n", "o", "p", "e">>
MalformedLines ==
    { Line(<<W_NOPE>>),
      Line(<<<<>>>>),
      Line(<<W_GET, T_i8>>),
      Line(<<W_MODE, W_TRIE>>),
      Line(<<W_TTL, K_ab, <<"x">>>>) }

\* Lines that do not decode, among commands that change the store.
DropLines ==
    MalformedLines \cup
    { Line(<<W_SET, T_i8, K_ab, <<"1">>>>),
      Line(<<W_TTL, K_ab, <<"2">>>>),
      Line(<<W_GET, T_i8, K_ab>>) }

\* SET String with values that hold spaces (two in a row, leading, trailing)
\* and a byte that is not UTF-8, and the GET that reads them back.
ValueLines ==
    { Line(<<W_SET, T_String, K_ab, <<"x">>, <<>>, <<"y">>>>),
      Line(<<W_SET, T_String, K_ab, <<>>, <<"x">>>>),
      Line(<<W_SET, T_String, K_ab, <<"x">>, <<>>>>),
      Line(<<W_SET, T_String, K_ab, <<"x", BadByte>>, <<"y">>>>),
      Line(<<W_GET, T_String, K_ab>>) }

\* MODE lines, and KEYS with patterns that do and do not compile.
ModeLines ==
    { Line(<<W_SET, T_i8, K_ab, <<"1">>>>),
      Line(<<W_SET, T_i8, K_ba, <<"1">>>>),
      Line(<<W_KEYS, P_GlobA>>),
      Line(<<W_KEYS, P_RegexA>>),
      Line(<<W_KEYS, P_Class>>),
      Line(<<W_KEYS, P_Group>>),
      Line(<<W_MODE, W_GLOB>>),
      Line(<<W_MODE, W_REGEX>>),
      Line(<<W_MODE, W_REGEXX>>),
      Line(<<W_MODE, W_TRIEX>>) }

Workloads ==
    {"store", "trie", "errors", "add", "ttl", "session", "keys", "mode", "drop",
     "value"}

LinesOf(w) ==
    CASE w = "store" -> StoreLines
      [] w = "trie" -> TrieLines
      [] w = "errors" -> ErrorLines
      [] w = "add" -> AddLines
      [] w = "ttl" -> TtlLines
      [] w = "session" -> SessionLines
      [] w = "keys" -> KeysLines
      [] w = "mode" -> ModeLines
      [] w = "drop" -> DropLines
      [] w = "value" -> ValueLines

AllLines == UNION {LinesOf(w) : w \in Workloads}

\* Command::from_vec of every line a client may send.
Decoded == [line \in AllLines |-> from_vec(line)]

\* ------------------------------------------------------------------- state
\* Connections the server may accept in one behaviour, numbered in the order
\* main accepts them.
NumConns == 2
Conns == 1..NumConns
NoConn == 0
NoLine == <<>>

\* The clients of a workload: the store and trie workloads have one client.
ClientsOf(w) == IF w = "session" THEN Conns ELSE {1}

VARIABLES
    map,            \* SmirkMap::map
    trie,           \* SmirkMap::trie
    search_mode,    \* SmirkMap::search_mode
    now,            \* SystemTime::now(), in seconds
    pc,             \* per connection: where its thread is in handle_client
    lock,           \* the connection holding the Mutex<SmirkMap>, or NoConn
    poisoned,       \* the mutex was held by a thread that panicked
    shut,           \* per connection: the stream was shut down (QUIT)
    inbox,          \* per connection: the line its client sent that the
                    \* server has not read yet, or NoLine
    unchecked,      \* a counter has wrapped: the build does not check overflow
    nsent,          \* lines sent so far, over all clients
    last,           \* the last line handled: its command, the store before it,
                    \* the time, the response and whether the handler panicked
    written,        \* per key: the last set or del call the store answered
    workload        \* the lines the clients of this behaviour send

vars == <<map, trie, search_mode, now, pc, lock, poisoned, shut, inbox,
          unchecked, nsent, last, written, workload>>

NoLast ==
    [conn |-> NoConn, line |-> NoLine, decoded |-> FALSE, cmd |-> NoCommand,
     map |-> EmptyMap, trie |-> TrieDefault, mode |-> "Glob", at |-> 0,
     resp |-> NoResponse, panic |-> FALSE, shut |-> FALSE]

\* SmirkConfig::get_runtime_config: Glob unless the server was started with
\* --default-key-search-type REGEX.
ConfiguredModes == {"Glob", "Regex"}

\* main: the store starts empty, with the trie's default root and the search
\* mode of the configuration; no connection is open.
Init ==
    /\ map = EmptyMap
    /\ trie = TrieDefault
    /\ search_mode \in ConfiguredModes
    /\ now = 0
    /\ pc = [c \in Conns |-> "none"]
    /\ lock = NoConn
    /\ poisoned = FALSE
    /\ shut = [c \in Conns |-> FALSE]
    /\ inbox = [c \in Conns |-> NoLine]
    /\ unchecked = FALSE
    /\ nsent = 0
    /\ last = NoLast
    /\ written = EmptyMap
    /\ workload \in Workloads

\* main's accept loop: a thread is spawned for the connection.
Accept(c) ==
    /\ c \in ClientsOf(workload)
    /\ pc[c] = "none"
    /\ \A b \in Conns : b < c => pc[b] # "none"
    /\ pc' = [pc EXCEPT ![c] = "spawned"]
    /\ UNCHANGED <<map, trie, search_mode, now, lock, poisoned, shut, inbox,
                   unchecked, nsent, last, written, workload>>

\* A client writes a line to its connection; the line waits in the socket
\* until the connection's thread reads it.
Send(c, line) ==
    /\ pc[c] \in {"spawned", "reading"}
    /\ inbox[c] = NoLine
    /\ nsent < MaxCmds
    /\ inbox' = [inbox EXCEPT ![c] = line]
    /\ nsent' = nsent + 1
    /\ UNCHANGED <<map, trie, search_mode, now, pc, lock, poisoned, shut,
                   unchecked, last, written, workload>>

\* handle_client taking the store without waiting for the connection that
\* holds it.
LockWithoutWaiting(c) ==
    /\ pc[c] = "spawned"
    /\ IF poisoned
       THEN pc' = [pc EXCEPT ![c] = "panicked"] /\ lock' = lock
       ELSE pc' = [pc EXCEPT ![c] = "reading"] /\ lock' = c
    /\ UNCHANGED <<map, trie, search_mode, now, poisoned, shut, inbox, unchecked,
                   nsent, last, written, workload>>

\* handle_client: threadsafe_server_data.lock().unwrap() blocks while another
\* connection holds the mutex and panics when the mutex is poisoned.
Lock(c) ==
    /\ pc[c] = "spawned"
    /\ lock = NoConn
    /\ IF poisoned
       THEN pc' = [pc EXCEPT ![c] = "panicked"] /\ lock' = lock
       ELSE pc' = [pc EXCEPT ![c] = "reading"] /\ lock' = c
    /\ UNCHANGED <<map, trie, search_mode, now, poisoned, shut, inbox, unchecked,
                   nsent, last, written, workload>>

\* The calls of SmirkMap::set, binary_set and del a command makes, per key,
\* and for a set the time of the call.
RECURSIVE NoteDels(_, _, _)
NoteDels(w, m, keys) ==
    IF keys = <<>> THEN w
    ELSE NoteDels(MapInsert(w, Head(keys),
                            [op |-> "del", kind |-> "None", value |-> <<>>,
                             tag |-> <<>>, n |-> del(m, Head(keys)).n, at |-> 0]),
                  del(m, Head(keys)).map, Tail(keys))

Note(w, m, cmd, clock) ==
    CASE cmd.op = "Set"
            /\ (TagKind(cmd.t) = "Vec<u8>" \/ parse(TagKind(cmd.t), Lossy(cmd.value)).ok) ->
           MapInsert(w, cmd.key, [op |-> "set", kind |-> TagKind(cmd.t),
                                  value |-> cmd.value, tag |-> cmd.t, n |-> 0,
                                  at |-> clock])
      [] cmd.op = "Del" -> NoteDels(w, m, cmd.keys)
      [] OTHER -> w

\* handle_client, one turn of its loop on a line: read_until, Command::from_vec,
\* then process_command under the lock; a line that does not decode is printed
\* and dropped.  A panic unwinds the thread: the guard is dropped, which
\* poisons and releases the mutex.
HandleLine(c) ==
    /\ pc[c] = "reading"
    /\ inbox[c] # NoLine
    /\ inbox' = [inbox EXCEPT ![c] = NoLine]
    /\ \E d \in {Decoded[inbox[c]]} :
         IF ~d.ok
         THEN /\ last' = [conn |-> c, line |-> inbox[c], decoded |-> FALSE,
                          cmd |-> NoCommand, map |-> map, trie |-> trie,
                          mode |-> search_mode, at |-> now, resp |-> NoResponse,
                          panic |-> FALSE, shut |-> shut[c]]
              /\ UNCHANGED <<map, trie, search_mode, pc, lock, poisoned, shut,
                             unchecked, written>>
         ELSE \E checked \in {process_command(d.cmd, map, trie, search_mode, now,
                                              shut[c], TRUE)} :
              \E wrapping \in {process_command(d.cmd, map, trie, search_mode, now,
                                               shut[c], FALSE)} :
              \E o \in {checked, wrapping} :
                /\ (o = checked /\ checked # wrapping) => ~unchecked
                /\ unchecked' = (unchecked \/ (o = wrapping /\ checked # wrapping))
                /\ map' = o.map
                /\ trie' = o.trie
                /\ search_mode' = o.mode
                /\ shut' = [shut EXCEPT ![c] = o.shut]
                /\ written' = Note(written, map, d.cmd, now)
                /\ last' = [conn |-> c, line |-> inbox[c], decoded |-> TRUE,
                            cmd |-> d.cmd, map |-> map, trie |-> trie,
                            mode |-> search_mode, at |-> now, resp |-> o.resp,
                            panic |-> o.panic, shut |-> shut[c]]
                /\ IF o.panic
                   THEN /\ pc' = [pc EXCEPT ![c] = "panicked"]
                        /\ lock' = NoConn
                        /\ poisoned' = TRUE
                   ELSE UNCHANGED <<pc, lock, poisoned>>
    /\ UNCHANGED <<now, nsent, workload>>

\* handle_client: read_until returns Ok(0) (the client closed, or the stream
\* was shut down, and nothing is left to read); the thread returns and the
\* guard is dropped.
ReadEOF(c) ==
    /\ pc[c] = "reading"
    /\ inbox[c] = NoLine
    /\ pc' = [pc EXCEPT ![c] = "done"]
    /\ lock' = NoConn
    /\ UNCHANGED <<map, trie, search_mode, now, poisoned, shut, inbox, unchecked,
                   nsent, last, written, workload>>

\* The wall clock moves, forward or (being the system's clock) backward,
\* while a line is still to be handled.
Tick ==
    /\ nsent < MaxCmds \/ \E c \in Conns : inbox[c] # NoLine
    /\ now' \in {i * ClockStep : i \in 0..MaxTime} \ {now}
    /\ UNCHANGED <<map, trie, search_mode, pc, lock, poisoned, shut, inbox,
                   unchecked, nsent, last, written, workload>>

Next ==
    \/ \E c \in Conns : Accept(c)
    \/ \E c \in Conns : \E line \in LinesOf(workload) : Send(c, line)
    \/ \E c \in Conns : Lock(c)
    \/ \E c \in Conns : HandleLine(c)
    \/ \E c \in Conns : ReadEOF(c)
    \/ Tick

Spec == Init /\ [][Next]_vars

\* One specification per workload.
\* SmirkConfig::default: the server was started without options.
DefaultConfig == search_mode = "Glob"

InitStore == Init /\ DefaultConfig /\ workload = "store"
InitTrie == Init /\ DefaultConfig /\ workload = "trie"
InitErrors == Init /\ DefaultConfig /\ workload = "errors"
InitAdd == Init /\ DefaultConfig /\ workload = "add"
InitTtl == Init /\ DefaultConfig /\ workload = "ttl"
InitSession == Init /\ DefaultConfig /\ workload = "session"
InitKeys == Init /\ workload = "keys"
InitMode == Init /\ workload = "mode"
InitDrop == Init /\ DefaultConfig /\ workload = "drop"
InitValue == Init /\ DefaultConfig /\ workload = "value"

SpecStore == InitStore /\ [][Next]_vars
SpecTrie == InitTrie /\ [][Next]_vars
SpecErrors == InitErrors /\ [][Next]_vars
SpecAdd == InitAdd /\ [][Next]_vars
SpecTtl == InitTtl /\ [][Next]_vars
SpecSession == InitSession /\ [][Next]_vars
SpecKeys == InitKeys /\ [][Next]_vars
SpecMode == InitMode /\ [][Next]_vars
SpecDrop == InitDrop /\ [][Next]_vars
SpecValue == InitValue /\ [][Next]_vars

\* The session workload with threads that run: a spawned thread that can take
\* the mutex does, a line that arrived is read, and a client that has nothing
\* more to send closes its connection.
FairSpecSession ==
    /\ InitSession /\ [][Next]_vars
    /\ \A c \in Conns : WF_vars(Lock(c))
    /\ \A c \in Conns : WF_vars(HandleLine(c))
    /\ \A c \in Conns : WF_vars(ReadEOF(c))

\* ------------------------------------------------------- the trie by itself
\* A caller of Trie's own methods, on a trie that starts as Trie::default.
\* The keys it passes, and the prefixes it asks for.
\* The calls the caller of the trie makes in one behaviour.
MaxOps == 4

K_cat == <<"c", "a", "t">>
K_car == <<"c", "a", "r">>
K_ca == <<"c", "a">>
K_c == <<"c">>
ApiKeys == {K_cat, K_car, K_ca, K_c, K_empty}
ApiPrefixes == {K_empty, K_c, K_ca, K_cat, K_car}

InitApi ==
    /\ map = EmptyMap
    /\ trie = TrieDefault
    /\ search_mode = "Glob"
    /\ now = 0
    /\ pc = [c \in Conns |-> "none"]
    /\ lock = NoConn
    /\ poisoned = FALSE
    /\ shut = [c \in Conns |-> FALSE]
    /\ inbox = [c \in Conns |-> NoLine]
    /\ unchecked = FALSE
    /\ nsent = 0
    /\ last = NoLast
    /\ written = EmptyMap
    /\ workload = "api"

\* What the caller has done with a key: the last call that returned (insert
\* is "set", remove is "del"), and in n whether the key was ever removed after
\* an insert.
ApiNote(w, k, op) ==
    MapInsert(w, k,
              [op |-> op, kind |-> "None", value |-> <<>>, tag |-> <<>>, at |-> 0,
               n |-> IF k \in DOMAIN w /\ (w[k].n = 1 \/ (op = "del" /\ w[k].op = "set"))
                     THEN 1 ELSE 0])

\* The call the caller made last: the method, its key, the trie it was made
\* on and whether it panicked.
ApiCall(op, k, panic) ==
    [NoLast EXCEPT !.cmd = Command(op, <<>>, k, <<>>, <<>>, "Glob", None),
                   !.trie = trie, !.panic = panic]

\* trie.insert(k); a panic ends the caller's thread (pc of the first thread).
ApiInsert(k) ==
    /\ pc[1] = "none"
    /\ nsent < MaxOps
    /\ nsent' = nsent + 1
    /\ \E r \in {insert(trie, k)} :
         /\ trie' = r.trie
         /\ pc' = IF r.panic THEN [pc EXCEPT ![1] = "panicked"] ELSE pc
         /\ written' = IF r.panic THEN written ELSE ApiNote(written, k, "set")
         /\ last' = ApiCall("insert", k, r.panic)
    /\ UNCHANGED <<map, search_mode, now, lock, poisoned, shut, inbox, unchecked,
                   workload>>

\* trie.remove(k), in a build that checks overflow or in one that does not.
ApiRemove(k) ==
    /\ pc[1] = "none"
    /\ nsent < MaxOps
    /\ nsent' = nsent + 1
    /\ \E checked \in {remove(trie, k, TRUE)} :
       \E wrapping \in {remove(trie, k, FALSE)} :
       \E r \in {checked, wrapping} :
         /\ (r = checked /\ checked # wrapping) => ~unchecked
         /\ unchecked' = (unchecked \/ (r = wrapping /\ checked # wrapping))
         /\ trie' = r.trie
         /\ pc' = IF r.panic THEN [pc EXCEPT ![1] = "panicked"] ELSE pc
         /\ written' = IF r.panic THEN written ELSE ApiNote(written, k, "del")
         /\ last' = ApiCall("remove", k, r.panic)
    /\ UNCHANGED <<map, search_mode, now, lock, poisoned, shut, inbox, workload>>

NextApi ==
    \/ \E k \in ApiKeys : ApiInsert(k)
    \/ \E k \in ApiKeys : ApiRemove(k)

SpecTrieApi == InitApi /\ [][NextApi]_vars

\* ------------------------------------------------------------ the properties
\* The keys the clients name.
AllKeys == {K_ab, K_ba, K_a, K_empty}

\* The last handled line was a SET, of the kind its tag selects.
LastIsSet == last.decoded /\ last.cmd.op = "Set"
LastKind == TagKind(last.cmd.t)
\* SmirkMap::set or binary_set answered the last SET with Ok.
LastParses == LastKind = "Vec<u8>" \/ parse(LastKind, Lossy(last.cmd.value)).ok
\* The keys of the last DEL, as a set.
LastKeys == {last.cmd.keys[i] : i \in DOMAIN last.cmd.keys}

\* C1: once set::<T>(k, v) has returned success for a scalar T, get::<T>(k)
\* returns exactly the value T's parser makes of v, in every state up to the
\* next successful SET or DEL of k.
C1_SetThenGet ==
    \A k \in DOMAIN written :
        (written[k].op = "set" /\ written[k].kind \in ScalarKinds) =>
            get(map, written[k].kind, k) =
                Ok(parse(written[k].kind, Lossy(written[k].value)).value, NoMessage)

\* A u8 was set to 200, a later SET of the key failed to parse, and get::<u8>
\* still returns 200.
C1_Witness ==
    /\ LastIsSet /\ ~LastParses /\ last.cmd.key = K_ab
    /\ K_ab \in DOMAIN written
    /\ written[K_ab].op = "set" /\ written[K_ab].kind = "u8"
    /\ get(map, "u8", K_ab) = Ok(Value("u8", 200, <<>>), NoMessage)

\* C2: get::<T>(k) on a record of another kind returns TypeMismatch naming k
\* and T, never a value and never KeyNotFound; it returns the value only when
\* T is the stored kind; the GET command answers with the same.
C2_TypeMismatch ==
    /\ \A k \in DOMAIN map : \A kind \in Kinds :
          IF map[k].value.kind = kind
          THEN get(map, kind, k) = Ok(map[k].value, NoMessage)
          ELSE get(map, kind, k) = Err(TypeMismatch(k, type_name(kind)))
    /\ (last.decoded /\ last.cmd.op = "Get" /\ last.cmd.key \in DOMAIN last.map
            /\ ~last.shut) =>
          IF last.map[last.cmd.key].value.kind = LastKind
          THEN last.resp = Streamed(last.map[last.cmd.key].value)
          ELSE last.resp = Written(TypeMismatch(last.cmd.key, type_name(LastKind)))

\* GET i8 on a key that holds a u8 was answered with TypeMismatch.
C2_Witness ==
    /\ last.decoded /\ last.cmd.op = "Get" /\ LastKind = "i8"
    /\ last.cmd.key \in DOMAIN last.map
    /\ last.map[last.cmd.key].value = Value("u8", 200, <<>>)
    /\ last.resp.msg.kind = "TypeMismatch" /\ last.resp.msg.ty = "i8"

\* C3: a SET whose text does not parse as its scalar type is answered with
\* ParseError (the key, the text, the type) and leaves the map and the trie as
\* they were: a prior record keeps every field, no record is created.
C3_FailedSetChangesNothing ==
    (LastIsSet /\ ~LastParses) =>
        /\ map = last.map
        /\ trie = last.trie
        /\ ~last.shut =>
              /\ ~last.panic
              /\ last.resp = Written(ParseError(last.cmd.key, Lossy(last.cmd.value),
                                                type_name(LastKind)))

\* A failed SET on a key that held a record with a ttl: the record is as before.
C3_Witness ==
    /\ LastIsSet /\ ~LastParses
    /\ last.cmd.key \in DOMAIN last.map
    /\ last.map[last.cmd.key].ttl.some
    /\ map[last.cmd.key] = last.map[last.cmd.key]
    /\ last.resp.msg.kind = "ParseError"

\* At most one connection is inside the loop of handle_client, holding the lock.
MutualExclusion ==
    /\ Cardinality({c \in Conns : pc[c] = "reading"}) <= 1
    /\ \A c \in Conns : pc[c] = "reading" <=> lock = c

\* C4: commands are totally ordered: one lock holder at a time, every command
\* runs to completion under the lock (its handler returns), and its response
\* is the one the command gives on the store the commands before it left.
C4_TotalOrder ==
    /\ MutualExclusion
    /\ last.decoded => ~last.panic
    /\ last.decoded =>
          last.resp \in {process_command(last.cmd, last.map, last.trie, last.mode,
                                         last.at, last.shut, b).resp : b \in BOOLEAN}

\* SET String a x stored the record, then the handler was aborted inside
\* Trie::insert: no acknowledgment was written and the mutex is poisoned.
C4_Witness ==
    /\ LastIsSet /\ last.cmd.key = K_a /\ ~last.shut
    /\ last.panic /\ last.resp = NoResponse
    /\ K_a \in DOMAIN map /\ K_a \notin DOMAIN last.map
    /\ poisoned /\ pc[last.conn] = "panicked"

\* Every connection the server accepted has ended.
AllEnded == \A c \in Conns : pc[c] \in {"done", "panicked"}

\* C5: once the connections have ended no SET a client sent is lost: none is
\* left unread, and every key set (and not deleted) is in the map with the
\* value written.
C5_NoSetLost ==
    AllEnded =>
        /\ \A c \in Conns :
              (inbox[c] # NoLine /\ Decoded[inbox[c]].ok
                  /\ Decoded[inbox[c]].cmd.op = "Set") =>
                  /\ Decoded[inbox[c]].cmd.key \in DOMAIN written
                  /\ written[Decoded[inbox[c]].cmd.key].value =
                         Decoded[inbox[c]].cmd.value
        /\ \A k \in DOMAIN written :
              written[k].op = "set" =>
                  get(map, written[k].kind, k) =
                      Ok(parse(written[k].kind, Lossy(written[k].value)).value,
                         NoMessage)

\* Connection 1 set ab and was then aborted; connection 2, whose SET of ba was
\* already sent, was aborted at lock().unwrap(): ba was never set.
C5_Witness ==
    /\ AllEnded
    /\ K_ab \in DOMAIN map
    /\ pc[2] = "panicked"
    /\ inbox[2] = Line(<<W_SET, T_i8, K_ba, <<"1", "0", "0">>>>)
    /\ K_ba \notin DOMAIN map

\* The answer of the store to a command: Ok or the error.
StoreAnswer(cmd, m, clock) ==
    CASE cmd.op = "Get" -> get(m, TagKind(cmd.t), cmd.key)
      [] cmd.op = "Set" /\ TagKind(cmd.t) \in ScalarKinds ->
           set(m, TagKind(cmd.t), cmd.key, cmd.value, cmd.t, clock).res
      [] cmd.op = "Add" /\ cmd.t \in {T_i8, T_u8} -> add(m, TagKind(cmd.t), cmd.keys)
      [] cmd.op = "Add" /\ cmd.t = T_f32 -> add_float(m, TagKind(cmd.t), cmd.keys)
      [] cmd.op = "Type" ->
           IF get_record(m, cmd.key).ok THEN Ok(NoValue, NoMessage)
           ELSE Err(get_record(m, cmd.key).msg)
      [] OTHER -> Ok(NoValue, NoMessage)

\* The thread of connection c handles a line in this step.
Handles(c) == inbox[c] # NoLine /\ inbox'[c] = NoLine

\* C6: a command the store answers with an error (KeyNotFound, TypeMismatch,
\* ParseError, AddOverflowError) gets that error as its response, changes
\* nothing in the store, does not abort its connection or poison the lock, and
\* leaves every next command of the connection with the result it would have
\* had without it.
C6_ErrorsAreResponses ==
    [][\A c \in Conns :
          (Handles(c) /\ Decoded[inbox[c]].ok /\ ~shut[c]
              /\ ~StoreAnswer(Decoded[inbox[c]].cmd, map, now).ok) =>
              /\ last'.resp = Written(StoreAnswer(Decoded[inbox[c]].cmd, map, now).msg)
              /\ last'.resp.msg.kind \in
                     {"KeyNotFound", "TypeMismatch", "ParseError", "AddOverflowError"}
              /\ map' = map /\ trie' = trie /\ search_mode' = search_mode
              /\ pc'[c] = "reading" /\ lock' = c /\ ~poisoned' /\ ~shut'[c]
              /\ \A line \in LinesOf(workload) : \A b \in BOOLEAN :
                    Decoded[line].ok =>
                        process_command(Decoded[line].cmd, map', trie', search_mode',
                                        now', shut'[c], b)
                          = process_command(Decoded[line].cmd, map, trie, search_mode,
                                            now, shut[c], b)]_vars

\* ADD i8 over a key holding 100, twice, was answered with AddOverflowError and
\* the connection is still reading.
C6_Witness ==
    /\ last.decoded /\ last.cmd.op = "Add"
    /\ last.resp = Written(AddOverflowError)
    /\ map = last.map /\ K_ba \in DOMAIN map
    /\ pc[last.conn] = "reading" /\ lock = last.conn /\ ~poisoned

\* The key has an entry in the trie: its path exists and ends at a terminal node.
HasEntry(t, k) ==
    LET w == Walk(t, <<>>, k) IN w.found /\ t[w.path].has_key_ending_here

\* C7: the trie and the map are in lockstep: a key has a trie entry if and
\* only if the map holds a record for it.
C7_Lockstep == \A k \in AllKeys : HasEntry(trie, k) <=> k \in DOMAIN map

\* SET String ab x was acknowledged: the map holds ab, the trie has no path ab.
C7_Witness ==
    /\ LastIsSet /\ last.cmd.key = K_ab /\ ~last.panic
    /\ last.resp.msg.kind = "SetKey"
    /\ K_ab \in DOMAIN map
    /\ ~Walk(trie, <<>>, K_ab).found

\* C8: del(k) returns 1 on a stored key and 0 on every later call until k is
\* set again; after del(k), exists(k) is false and get on k is KeyNotFound; DEL
\* replies with the sum over its keys.
C8_DelOnceThenZero ==
    /\ \A k \in DOMAIN map :
          del(map, k) = [map |-> MapRemove(map, k), n |-> 1]
    /\ \A k \in DOMAIN written :
          written[k].op = "del" =>
              /\ ~exists(map, k)
              /\ \A kind \in Kinds : get(map, kind, k) = Err(KeyNotFound(k))
              /\ del(map, k) = [map |-> map, n |-> 0]
    /\ (last.decoded /\ last.cmd.op = "Del" /\ ~last.panic /\ ~last.shut) =>
          /\ last.resp.kind = "Deleted"
          /\ last.resp.n = Cardinality(LastKeys \cap DOMAIN last.map)
          /\ DOMAIN map = DOMAIN last.map \ LastKeys

\* DEL ab ab on a stored key: the first del returned 1, the second 0.
C8_Witness ==
    /\ last.decoded /\ last.cmd.op = "Del" /\ last.cmd.keys = <<K_ab, K_ab>>
    /\ K_ab \in DOMAIN last.map
    /\ last.resp.n = 1
    /\ written[K_ab].op = "del" /\ written[K_ab].n = 0
    /\ ~exists(map, K_ab)

\* The record a successful SET writes: the parsed value (the bytes themselves
\* for the fallback arm), no ttl, the time of the write, the stored type and
\* the tag of the command.
LastRecord ==
    IF LastKind = "Vec<u8>"
    THEN Record(Value("Vec<u8>", 0, last.cmd.value), None, last.at, "Vec<u8>",
                last.cmd.t)
    ELSE Record(parse(LastKind, Lossy(last.cmd.value)).value, None, last.at,
                type_name(LastKind), last.cmd.t)

\* C9: a successful SET, scalar or binary, on a key that holds a record
\* replaces the record completely: value and both type tags of the new SET,
\* ttl none whatever the old ttl was, ttl_start the time of the new write.
C9_SetReplacesRecord ==
    (LastIsSet /\ LastParses /\ last.cmd.key \in DOMAIN last.map) =>
        /\ last.cmd.key \in DOMAIN map
        /\ map[last.cmd.key] = LastRecord
        /\ map[last.cmd.key].ttl = None
        /\ map[last.cmd.key].ttl_start = last.at

\* A binary SET over a scalar record that had a ttl and an earlier ttl_start.
C9_Witness ==
    /\ LastIsSet /\ LastKind = "Vec<u8>"
    /\ last.cmd.key \in DOMAIN last.map
    /\ last.map[last.cmd.key].ttl.some
    /\ last.map[last.cmd.key].ttl_start # last.at
    /\ last.map[last.cmd.key].type_name = "i8"
    /\ map[last.cmd.key].type_name = "Vec<u8>"
    /\ map[last.cmd.key].ttl = None

\* C10: get, ttl and get_record on a key with no record return the
\* key-not-found outcome in every state, after a DEL of the key too, and GET,
\* TTL and TYPE answer with it.
C10_AbsentKey ==
    /\ \A k \in AllKeys \ DOMAIN map :
          /\ \A kind \in Kinds : get(map, kind, k) = Err(KeyNotFound(k))
          /\ ~ttl(map, k, now).ok
          /\ ~get_record(map, k).ok
          /\ get_record(map, k).msg = KeyNotFound(k)
    /\ (last.decoded /\ last.cmd.op \in {"Get", "TtlGet", "Type"}
            /\ last.cmd.key \notin DOMAIN last.map /\ ~last.shut) =>
          IF last.cmd.op = "TtlGet"
          THEN last.resp = Response("NoExist", KeyNotFound(last.cmd.key), NoValue, 0,
                                    {}, TRUE)
          ELSE last.resp = Written(KeyNotFound(last.cmd.key))

\* TTL ab after ab was set and deleted is answered "does not exist".
C10_Witness ==
    /\ K_ab \in DOMAIN written
    /\ written[K_ab].op = "del" /\ written[K_ab].n = 1
    /\ last.decoded /\ last.cmd.op = "TtlGet" /\ last.cmd.key = K_ab
    /\ last.resp.kind = "NoExist"

\* The keys the caller of the trie inserted and has not removed since.
Inserted == {k \in DOMAIN written : written[k].op = "set"}
\* No key was ever removed.
NoneRemoved == \A k \in DOMAIN written : written[k].op = "set" /\ written[k].n = 0

\* The characters c such that p followed by c is a prefix of a key of keys.
Continuations(keys, p) ==
    {k[Len(p) + 1] : k \in {x \in keys : Len(x) > Len(p) /\ IsPrefix(p, x)}}

\* C11: for any set of inserted keys and any prefix p, get_keys_with_prefix(p)
\* is exactly the set of characters c with p followed by c a prefix of an
\* inserted key; after insert("cat") and insert("car"), "ca" gives {t, r}.
C11_PrefixContinuations ==
    (workload = "api" /\ NoneRemoved) =>
        \A p \in ApiPrefixes :
            get_keys_with_prefix(trie, p) = Continuations(Inserted, p)

\* insert("cat") and insert("car") returned, and "ca" has no continuation.
C11_Witness ==
    /\ workload = "api" /\ pc[1] = "none"
    /\ Inserted = {K_cat, K_car} /\ NoneRemoved
    /\ get_keys_with_prefix(trie, K_ca) = {}
    /\ get_keys_with_prefix(trie, K_empty) = {"c"}

\* C12: after remove(k) of an inserted key k, get_keys_with_prefix(p) for a
\* proper prefix p of k does not return the character of k after p, unless a
\* key still in the trie continues p with the same character.
C12_RemoveDropsContinuation ==
    workload = "api" =>
        \A k \in DOMAIN written :
            (written[k].op = "del" /\ written[k].n = 1) =>
                \A p \in ApiPrefixes :
                    (Len(p) < Len(k) /\ IsPrefix(p, k)
                        /\ k[Len(p) + 1] \in get_keys_with_prefix(trie, p)) =>
                        k[Len(p) + 1] \in Continuations(Inserted, p)

\* insert("cat") then remove("cat"): the empty prefix still continues with c.
C12_Witness ==
    /\ workload = "api" /\ pc[1] = "none"
    /\ DOMAIN written = {K_cat}
    /\ written[K_cat].op = "del" /\ written[K_cat].n = 1
    /\ "c" \in get_keys_with_prefix(trie, K_empty)

\* The key lists add is called with: no key, one, two, and three with the
\* first key again after the second.
AddKeys == {K_ab, K_ba}
AddKeyLists ==
    {<<>>} \cup {<<a>> : a \in AddKeys} \cup {<<a, b>> : a, b \in AddKeys}
        \cup {<<a, b, a>> : a, b \in AddKeys}

\* The range of an integer type.
MinOf(kind) == IF kind = "i8" THEN I8Min ELSE 0
MaxOf(kind) == IF kind = "i8" THEN I8Max ELSE U8Max

\* Every key of the list holds a value of the kind.
AllOfKind(m, kind, keys) ==
    \A i \in DOMAIN keys : keys[i] \in DOMAIN m /\ m[keys[i]].value.kind = kind

\* The sum of the stored values, as a mathematical integer.
RECURSIVE SumOf(_, _)
SumOf(m, keys) ==
    IF keys = <<>> THEN 0 ELSE m[Head(keys)].value.n + SumOf(m, Tail(keys))

\* C13: add over an integer type, on keys whose stored values sum past the
\* type's maximum, returns the overflow error; a total that add returns is the
\* exact sum, within the type's range, never a wrapped value.
C13_AddOverflows ==
    \A kind \in {"i8", "u8"} : \A keys \in AddKeyLists :
        AllOfKind(map, kind, keys) =>
            /\ SumOf(map, keys) > MaxOf(kind) =>
                  add(map, kind, keys) = Err(AddOverflowError)
            /\ add(map, kind, keys).ok =>
                  /\ add(map, kind, keys).value = Value(kind, SumOf(map, keys), <<>>)
                  /\ SumOf(map, keys) \in MinOf(kind)..MaxOf(kind)

\* Two keys hold the i8 100 (set by two SET lines) and add over them is the
\* overflow error.
C13_Witness ==
    /\ K_ab \in DOMAIN map /\ K_ba \in DOMAIN map
    /\ map[K_ab].value = Value("i8", 100, <<>>)
    /\ map[K_ba].value = Value("i8", 100, <<>>)
    /\ last.decoded /\ last.cmd.op = "Set"
    /\ add(map, "i8", <<K_ab, K_ba>>) = Err(AddOverflowError)
    /\ add(map, "i8", <<K_ab>>) = Ok(Value("i8", 100, <<>>), NoMessage)

\* Position i is the first of the list whose key get::<T> does not answer.
FirstBad(m, kind, keys, i) ==
    /\ ~get(m, kind, keys[i]).ok
    /\ \A j \in 1..(i - 1) : get(m, kind, keys[j]).ok

\* The running totals of the first n keys stay within the type's range.
PartialsWithin(m, kind, keys, n) ==
    \A j \in 1..n : SumOf(m, SubSeq(keys, 1, j)) \in MinOf(kind)..MaxOf(kind)

LastSetsTtl ==
    /\ last.decoded /\ last.cmd.op = "TtlSet" /\ last.cmd.ttl.some
    /\ last.cmd.key \in DOMAIN last.map

\* The seconds from the write of the record to the set_ttl (none when the
\* clock reads earlier than the write).
SinceWrite ==
    IF last.at >= last.map[last.cmd.key].ttl_start
    THEN last.at - last.map[last.cmd.key].ttl_start
    ELSE 0

\* How far a ttl read right after set_ttl(k, Some(n)) may be from n.
ClockTolerance == 1

\* C15 as stated: a ttl(k) query made right after set_ttl(k, Some(n)) on an
\* existing key returns Some(m) with m within the clock tolerance of n.
C15_TtlAfterSetTtl ==
    LastSetsTtl =>
        \A r \in {ttl(map, last.cmd.key, last.at)} :
            /\ r.ok /\ r.ttl.some
            /\ r.ttl.v - last.cmd.ttl.v <= ClockTolerance
            /\ last.cmd.ttl.v - r.ttl.v <= ClockTolerance

\* C15, amended: a ttl(k) query made right after set_ttl(k, Some(n)) on an
\* existing key returns Some(n - e), or Some(0) when e >= n, where e is the
\* seconds elapsed since the last successful SET of k; it returns Some(n)
\* when the record was written in the same second.
C15_TtlAfterSetTtlCountsFromWrite ==
    LastSetsTtl =>
        /\ ttl(map, last.cmd.key, last.at) =
               [ok |-> TRUE,
                ttl |-> Some(IF SinceWrite >= last.cmd.ttl.v THEN 0
                             ELSE last.cmd.ttl.v - SinceWrite)]
        /\ SinceWrite = 0 =>
               ttl(map, last.cmd.key, last.at).ttl = Some(last.cmd.ttl.v)

\* TTL ab 2 on a record written three seconds earlier: a ttl query at the
\* same instant answers 0.
C15_Witness ==
    /\ LastSetsTtl /\ last.cmd.ttl.v = 2
    /\ SinceWrite = ClockStep
    /\ ttl(map, last.cmd.key, last.at) = [ok |-> TRUE, ttl |-> Some(0)]

\* The seconds from the write of the record of k to now, none when the clock
\* reads earlier than the write.
SinceStart(k) ==
    IF now >= map[k].ttl_start THEN now - map[k].ttl_start ELSE 0

\* C16: ttl(k) on an existing record is None when no ttl is set, Some(0) once
\* the time since ttl_start is at least the ttl, Some(ttl - elapsed) otherwise;
\* it is never negative, also when the clock reads earlier than ttl_start; the
\* TTL query answers with the same number.
C16_TtlCountdown ==
    /\ \A k \in DOMAIN map :
          \A r \in {ttl(map, k, now)} :
              /\ r.ok
              /\ ~map[k].ttl.some => r.ttl = None
              /\ (map[k].ttl.some /\ SinceStart(k) >= map[k].ttl.v) => r.ttl = Some(0)
              /\ (map[k].ttl.some /\ SinceStart(k) < map[k].ttl.v) =>
                     r.ttl = Some(map[k].ttl.v - SinceStart(k))
              /\ r.ttl.some => (r.ttl.v >= 0 /\ r.ttl.v <= map[k].ttl.v)
    /\ (last.decoded /\ last.cmd.op = "TtlGet" /\ last.cmd.key \in DOMAIN last.map
            /\ ~last.shut) =>
          \A r \in {ttl(last.map, last.cmd.key, last.at)} :
              IF r.ttl.some
              THEN last.resp = Response("Ttl", NoMessage, NoValue, r.ttl.v, {}, TRUE)
              ELSE last.resp.kind = "NoExpire"

\* The clock reads earlier than the write of the record, whose ttl is 5: the
\* TTL query was answered 5.
C16_Witness ==
    /\ last.decoded /\ last.cmd.op = "TtlGet" /\ last.cmd.key = K_ab
    /\ K_ab \in DOMAIN last.map
    /\ last.map[K_ab].ttl = Some(5)
    /\ last.at < last.map[K_ab].ttl_start
    /\ last.resp.kind = "Ttl" /\ last.resp.n = 5

\* C17: set_ttl on an existing record changes only the ttl field: ttl_start
\* stays the time of the last successful SET of the key, the value and both
\* type tags stay; nothing else in the store changes.
C17_SetTtlChangesOnlyTtl ==
    /\ (last.decoded /\ last.cmd.op = "TtlSet" /\ last.cmd.key \in DOMAIN last.map) =>
          /\ map = [last.map EXCEPT ![last.cmd.key].ttl = last.cmd.ttl]
          /\ map[last.cmd.key].ttl_start = last.map[last.cmd.key].ttl_start
          /\ map[last.cmd.key].value = last.map[last.cmd.key].value
          /\ map[last.cmd.key].type_name = last.map[last.cmd.key].type_name
          /\ map[last.cmd.key].desired_type_name =
                 last.map[last.cmd.key].desired_type_name
          /\ trie = last.trie /\ search_mode = last.mode
    /\ \A k \in DOMAIN map :
          /\ k \in DOMAIN written /\ written[k].op = "set"
          /\ map[k].ttl_start = written[k].at

\* TTL ab 2 three seconds after the SET of ab: the ttl is 2, ttl_start is
\* still the time of the SET.
C17_Witness ==
    /\ last.decoded /\ last.cmd.op = "TtlSet" /\ last.cmd.key = K_ab
    /\ K_ab \in DOMAIN last.map
    /\ last.map[K_ab].ttl = None /\ map[K_ab].ttl = Some(2)
    /\ last.at = last.map[K_ab].ttl_start + ClockStep
    /\ map[K_ab].ttl_start = written[K_ab].at
    /\ map[K_ab].ttl_start # last.at

\* The keys whose last call of the store was a set that succeeded.
Live == {k \in DOMAIN written : written[k].op = "set"}

\* C18: expiry is never enforced.  A record stays in the store until a DEL
\* names it, whatever its ttl; on a record whose ttl has elapsed GET answers
\* the value, EXISTS answers 1 and DEL removes it and counts it, and TYPE and
\* the store are as for a record that has not expired.
C18_ExpiryNeverEnforced ==
    /\ DOMAIN map = Live
    /\ (/\ last.decoded /\ ~last.shut /\ ~last.panic
        /\ last.cmd.op \in {"Get", "Exists"}
        /\ last.cmd.key \in DOMAIN last.map
        /\ is_expired(last.map[last.cmd.key], last.at)) =>
          /\ map = last.map
          /\ last.cmd.op = "Exists" =>
                last.resp = Response("Exists", NoMessage, NoValue, 1, {}, TRUE)
          /\ (last.cmd.op = "Get"
                /\ TagKind(last.cmd.t) = last.map[last.cmd.key].value.kind) =>
                last.resp = Streamed(last.map[last.cmd.key].value)
    /\ (/\ last.decoded /\ ~last.shut /\ ~last.panic
        /\ last.cmd.op = "Del"
        /\ \E k \in LastKeys : /\ k \in DOMAIN last.map
                               /\ is_expired(last.map[k], last.at)) =>
          /\ DOMAIN map = DOMAIN last.map \ LastKeys
          /\ \A k \in DOMAIN map : map[k] = last.map[k]
          /\ last.resp.kind = "Deleted"
          /\ last.resp.n = Cardinality(LastKeys \cap DOMAIN last.map)

\* GET i8 ab three seconds after the SET, on a record whose ttl is 2: the
\* value is answered and the record is still there.
C18_Witness ==
    /\ last.decoded /\ last.cmd.op = "Get" /\ last.cmd.key = K_ab
    /\ K_ab \in DOMAIN last.map
    /\ last.map[K_ab].ttl = Some(2)
    /\ last.at >= last.map[K_ab].ttl_start + ClockStep
    /\ is_expired(last.map[K_ab], last.at)
    /\ last.resp.kind = "Value"
    /\ K_ab \in DOMAIN map

\* The type tags of the workloads inside and outside the scalar tags of
\* process_command.
ScalarTags == {T_i8, T_u8, T_f32, T_String}
OpaqueTags == {T_blob, T_raw}

\* C19: a SET with a tag outside the scalar tags always succeeds and stores
\* the bytes of the value, unchanged, as Vec<u8>; a GET of the key with any
\* tag outside the scalar tags answers exactly those bytes, and a GET with a
\* scalar tag answers TypeMismatch.
C19_OpaqueBytes ==
    /\ \A k \in DOMAIN written :
          (written[k].op = "set" /\ written[k].tag \in OpaqueTags) =>
             /\ k \in DOMAIN map
             /\ map[k].value = Value("Vec<u8>", 0, written[k].value)
             /\ map[k].type_name = "Vec<u8>"
             /\ map[k].desired_type_name = written[k].tag
             /\ \A t2 \in OpaqueTags :
                   get(map, TagKind(t2), k) =
                       Ok(Value("Vec<u8>", 0, written[k].value), NoMessage)
             /\ \A t2 \in ScalarTags :
                   get(map, TagKind(t2), k) =
                       Err(TypeMismatch(k, type_name(TagKind(t2))))
    /\ (last.decoded /\ last.cmd.op = "Set" /\ last.cmd.t \in OpaqueTags
            /\ ~last.shut) =>
          /\ ~last.panic
          /\ last.resp = Written(SetKey(last.cmd.key, "Vec<u8>", last.cmd.t))
          /\ map = MapInsert(last.map, last.cmd.key,
                             Record(Value("Vec<u8>", 0, last.cmd.value), None,
                                    last.at, "Vec<u8>", last.cmd.t))
    /\ (/\ last.decoded /\ last.cmd.op = "Get" /\ ~last.shut
        /\ last.cmd.key \in DOMAIN written
        /\ written[last.cmd.key].op = "set"
        /\ written[last.cmd.key].tag \in OpaqueTags) =>
          IF last.cmd.t \in ScalarTags
          THEN last.resp = Written(TypeMismatch(last.cmd.key,
                                                type_name(TagKind(last.cmd.t))))
          ELSE last.resp = Streamed(Value("Vec<u8>", 0, written[last.cmd.key].value))

\* SET blob ab stored a byte that is not UTF-8, and GET raw ab answered it as
\* it was sent.
C19_Witness ==
    /\ last.decoded /\ last.cmd.op = "Get" /\ last.cmd.t = T_raw
    /\ last.cmd.key = K_ab
    /\ K_ab \in DOMAIN written
    /\ written[K_ab].op = "set" /\ written[K_ab].tag = T_blob
    /\ written[K_ab].value = <<"x", BadByte>>
    /\ last.resp = Streamed(Value("Vec<u8>", 0, <<"x", BadByte>>))

\* The keys that start with "a" among those whose last store call was a
\* successful set.
LiveWithA == {k \in Live : k # <<>> /\ Head(k) = "a"}

\* C20: KEYS a* in Glob mode, and KEYS ^a.*$ in Regex mode, answer exactly
\* the keys now in the map that start with "a": every such key, no deleted
\* key, no key that was never set; without such a key the answer is the
\* no-matches message.
C20_KeysStartingWithA ==
    (/\ last.decoded /\ last.cmd.op = "Keys" /\ ~last.shut
     /\ \/ last.mode = "Glob" /\ last.cmd.key = P_GlobA
        \/ last.mode = "Regex" /\ last.cmd.key = P_RegexA) =>
       /\ ~last.panic
       /\ map = last.map
       /\ LiveWithA = {k \in DOMAIN map : k # <<>> /\ Head(k) = "a"}
       /\ last.resp.keys = LiveWithA
       /\ IF LiveWithA = {}
          THEN last.resp = Response("NoMatches", KeyNotFound(last.cmd.key), NoValue,
                                    0, {}, TRUE)
          ELSE last.resp = Response("Keys", NoMessage, NoValue, 0, LiveWithA, TRUE)

\* In Regex mode, with ab and ba in the map, KEYS ^a.*$ answered ab alone.
C20_Witness ==
    /\ last.decoded /\ last.cmd.op = "Keys" /\ last.cmd.key = P_RegexA
    /\ last.mode = "Regex"
    /\ DOMAIN map = {K_ab, K_ba}
    /\ last.resp.kind = "Keys" /\ last.resp.keys = {K_ab}

\* C21: once the line MODE GLOB or MODE REGEX has been handled the search
\* mode of the store is the mode the line names, and a KEYS request is
\* answered in the mode the store is in.
C21_ModeLineSetsMode ==
    /\ last.line = Line(<<W_MODE, W_GLOB>>) => search_mode = "Glob"
    /\ last.line = Line(<<W_MODE, W_REGEX>>) => search_mode = "Regex"
    /\ (last.decoded /\ last.cmd.op = "Keys") =>
          /\ search_mode = last.mode
          /\ last.resp = keys_and_write_to_stream(last.map, last.trie, search_mode,
                                                  last.cmd.key, last.shut).resp

\* A server started in Glob mode handled the line MODE REGEX: the line did not
\* decode and the store is still in Glob mode.
C21_Witness ==
    /\ last.line = Line(<<W_MODE, W_REGEX>>)
    /\ ~last.decoded
    /\ last.mode = "Glob" /\ search_mode = "Glob"

\* C22: a line that does not decode (unknown command, wrong number of
\* arguments, invalid mode, invalid ttl) is dropped: handling it writes
\* nothing, leaves the map, the trie and the search mode as they were, does
\* not end or abort the connection, which keeps the lock and reads on.
C22_MalformedLineDropped ==
    [][\A c \in Conns :
          (Handles(c) /\ inbox[c] \in MalformedLines) =>
             /\ ~last'.decoded /\ last'.conn = c /\ last'.line = inbox[c]
             /\ last'.resp = NoResponse /\ ~last'.panic
             /\ map' = map /\ trie' = trie /\ search_mode' = search_mode
             /\ written' = written
             /\ shut' = shut /\ poisoned' = poisoned
             /\ pc[c] = "reading" /\ pc'[c] = "reading"
             /\ lock = c /\ lock' = c]_vars

\* TTL ab x was dropped on a store that holds ab: the record still has no
\* ttl, and the next line of the connection, a GET, is waiting to be read.
C22_Witness ==
    /\ last.line = Line(<<W_TTL, K_ab, <<"x">>>>)
    /\ ~last.decoded
    /\ K_ab \in DOMAIN map /\ map[K_ab].ttl = None
    /\ map = last.map
    /\ pc[last.conn] = "reading"
    /\ inbox[last.conn] = Line(<<W_GET, T_i8, K_ab>>)

\* The pattern of the KEYS request handled last does not compile in the mode
\* the store was in.
LastPatternInvalid ==
    /\ last.decoded /\ last.cmd.op = "Keys"
    /\ \/ last.mode = "Glob" /\ ~GlobValid(last.cmd.key)
       \/ last.mode = "Regex" /\ ~RegexValid(last.cmd.key)

\* C23: a KEYS request whose pattern is not a valid glob (Glob mode) or not a
\* valid regular expression (Regex mode) fails alone: its handler is not
\* aborted, the connection stays open and keeps the lock until it ends, the
\* store is unchanged and the lock stays usable.
C23_InvalidPatternFailsRequestOnly ==
    LastPatternInvalid =>
       /\ ~last.panic
       /\ pc[last.conn] \in {"reading", "done"}
       /\ ~poisoned
       /\ map = last.map /\ trie = last.trie /\ search_mode = last.mode

\* KEYS [a in Glob mode on a store that holds ab: the handler was aborted at
\* Pattern::new(..).unwrap(), the connection is gone and the mutex poisoned.
C23_Witness ==
    /\ LastPatternInvalid
    /\ last.mode = "Glob" /\ last.cmd.key = P_Class
    /\ K_ab \in DOMAIN map
    /\ last.panic /\ last.resp = NoResponse
    /\ pc[last.conn] = "panicked" /\ poisoned

\* C24: SAVE is answered without aborting: its handler returns after writing
\* a response, the store is unchanged, the connection stays usable and the
\* lock is not poisoned.
C24_SaveDoesNotAbort ==
    (last.decoded /\ last.cmd.op = "Save" /\ ~last.shut) =>
       /\ ~last.panic
       /\ last.resp # NoResponse
       /\ map = last.map /\ trie = last.trie /\ search_mode = last.mode
       /\ pc[last.conn] \in {"reading", "done"}
       /\ ~poisoned

\* SAVE on a store that holds ab: "Saving a dump of all keys." was written,
\* then the handler was aborted at todo!(), and the mutex is poisoned.
C24_Witness ==
    /\ last.decoded /\ last.cmd.op = "Save" /\ ~last.shut
    /\ K_ab \in DOMAIN map /\ map = last.map
    /\ last.resp.kind = "Saving"
    /\ last.panic
    /\ pc[last.conn] = "panicked" /\ poisoned

\* C25: a connection ends on EOF or on QUIT and then releases the lock: once
\* QUIT has been processed the connection executes no further command, and a
\* connection that waits for the lock eventually holds it.
C25_QuitEndsConnection ==
    /\ [](last.decoded => ~last.shut)
    /\ \A c \in Conns : (pc[c] = "spawned") ~> (lock = c)

\* After its QUIT, connection 1 read SET i8 ab 1 from the bytes it had
\* already received: the record was stored, the write of the acknowledgment
\* to the closed stream aborted the handler, and connection 2, still waiting,
\* can only find the mutex poisoned.
C25_Witness ==
    /\ last.decoded /\ last.shut /\ last.conn = 1
    /\ last.cmd.op = "Set" /\ last.cmd.key = K_ab
    /\ K_ab \in DOMAIN map /\ K_ab \notin DOMAIN last.map
    /\ last.panic /\ poisoned
    /\ pc[2] = "spawned" /\ lock = NoConn

\* C26: a connection takes the lock once, before it reads its first line, and
\* keeps it until it ends: a line is handled only by the holder of the lock,
\* the lock is taken only when it is free and by a thread that has read
\* nothing, it is given up only by a thread that ends, and a thread that has
\* ended does not come back.
C26_LockHeldUntilEnd ==
    [][/\ \A c \in Conns : Handles(c) => (lock = c /\ pc[c] = "reading")
       /\ \A c \in Conns : (lock # c /\ lock' = c) =>
             (lock = NoConn /\ pc[c] = "spawned" /\ pc'[c] = "reading" /\ last' = last)
       /\ \A c \in Conns : (lock = c /\ lock' # c) =>
             (lock' = NoConn /\ pc'[c] \in {"done", "panicked"})
       /\ \A c \in Conns : pc[c] \in {"done", "panicked"} => pc'[c] = pc[c]
       /\ \A c \in Conns : (lock = c /\ pc'[c] = "reading") =>
             (map' = map \/ Handles(c))]_vars

\* Connection 1 holds the lock and has sent nothing; the line connection 2
\* sent is waiting and no line has been handled.
C26_Witness ==
    /\ lock = 1 /\ pc[1] = "reading" /\ inbox[1] = NoLine
    /\ last = NoLast
    /\ pc[2] = "spawned" /\ inbox[2] # NoLine
    /\ map = EmptyMap

\* What is left of a line after its first n spaces.
RECURSIVE AfterSpaces(_, _)
AfterSpaces(bytes, n) ==
    IF n = 0 \/ bytes = <<>> THEN bytes
    ELSE AfterSpaces(Tail(bytes), IF Head(bytes) = SP THEN n - 1 ELSE n)

\* C27: the value a SET hands to the store is the rest of its line after the
\* key, spaces kept and the newline removed, and after SET String k v a
\* GET String k answers v, byte for byte.
C27_SetValueRoundTrip ==
    /\ (last.decoded /\ last.cmd.op = "Set") =>
          last.cmd.value = AfterSpaces(PopNewline(last.line), 3)
    /\ (/\ last.decoded /\ last.cmd.op = "Get" /\ last.cmd.t = T_String /\ ~last.shut
        /\ last.cmd.key \in DOMAIN written
        /\ written[last.cmd.key].op = "set"
        /\ written[last.cmd.key].tag = T_String) =>
          last.resp = Streamed(Value("String", 0, written[last.cmd.key].value))

\* The same for the values that are valid UTF-8.
C27_RoundTripOfText ==
    /\ (last.decoded /\ last.cmd.op = "Set") =>
          last.cmd.value = AfterSpaces(PopNewline(last.line), 3)
    /\ (/\ last.decoded /\ last.cmd.op = "Get" /\ last.cmd.t = T_String /\ ~last.shut
        /\ last.cmd.key \in DOMAIN written
        /\ written[last.cmd.key].op = "set"
        /\ written[last.cmd.key].tag = T_String
        /\ Lossy(written[last.cmd.key].value) = written[last.cmd.key].value) =>
          last.resp = Streamed(Value("String", 0, written[last.cmd.key].value))

\* SET String ab with a value of x, a byte that is not UTF-8, a space and y;
\* GET String ab answered the value with U+FFFD in place of the byte.
C27_Witness ==
    /\ last.decoded /\ last.cmd.op = "Get" /\ last.cmd.t = T_String
    /\ last.cmd.key = K_ab /\ K_ab \in DOMAIN written
    /\ written[K_ab].value = <<"x", BadByte, SP, "y">>
    /\ last.resp = Streamed(Value("String", 0, <<"x", Replacement, SP, "y">>))

\* The commands that answer on the stream.
Answering == {"Set", "Get", "Del", "Keys", "TtlGet", "Exists", "Type", "Add", "Quit"}

\* C28: every response written for a command that produces one ends with a
\* newline.
C28_ResponsesEndWithNewline ==
    (/\ last.decoded /\ last.cmd.op \in Answering
     /\ ~last.shut /\ ~last.panic) =>
       /\ last.resp # NoResponse
       /\ last.resp.nl

\* DEL ab removed the record and answered "1" with nothing after it.
C28_Witness ==
    /\ last.decoded /\ last.cmd.op = "Del" /\ ~last.shut /\ ~last.panic
    /\ K_ab \in DOMAIN last.map /\ K_ab \notin DOMAIN map
    /\ last.resp.kind = "Deleted" /\ last.resp.n = 1
    /\ ~last.resp.nl

\* The paths of the nodes of a key: its prefixes of one character and more.
PathsOf(k) == {SubSeq(k, 1, i) : i \in 1..Len(k)}

\* t2 is t1 after an insert of k as the trie is meant to work: one node per
\* character of k, created when it was missing, the count of each one more
\* than it was, the last one terminal, and nothing else touched.
InsertedInto(t1, t2, k) ==
    /\ DOMAIN t2 = DOMAIN t1 \cup PathsOf(k)
    /\ \A p \in PathsOf(k) :
          IF p \in DOMAIN t1 THEN t2[p].counter = t1[p].counter + 1
          ELSE t2[p].counter >= 1
    /\ t2[k].has_key_ending_here
    /\ \A p \in DOMAIN t1 :
          /\ t1[p].has_key_ending_here => t2[p].has_key_ending_here
          /\ p \notin PathsOf(k) => t2[p] = t1[p]

\* C29: an insert(key) that returns has created or visited one node per
\* character of the key, incremented the count of each, marked the node of
\* the last character terminal, and cleared no terminal mark.
C29_InsertWalksTheKey ==
    (workload = "api" /\ last.cmd.op = "insert" /\ ~last.panic) =>
        InsertedInto(last.trie, trie, last.cmd.key)

\* insert("cat") on the default trie returned: there is a node for c, counted
\* once and not terminal, and no node for ca or cat.
C29_Witness ==
    /\ workload = "api" /\ pc[1] = "none" /\ nsent = 1
    /\ last.cmd.op = "insert" /\ last.cmd.key = K_cat /\ ~last.panic
    /\ Inserted = {K_cat}
    /\ DOMAIN trie = {K_empty, K_c}
    /\ trie[K_c] = Node(FALSE, InitialCounter + 1)

\* The keys now stored whose path passes through or ends at the node at p.
KeysThrough(p) == {k \in DOMAIN map : IsPrefix(p, k)}

\* C30: after any sequence of successful SETs and DELs the count of every
\* node below the root is the number of stored keys whose path passes
\* through or ends at the node, and every such key has its nodes.
C30_LiveCounts ==
    (\A c \in Conns : pc[c] # "panicked") =>
       /\ \A p \in DOMAIN trie \ {<<>>} :
             trie[p].counter = Cardinality(KeysThrough(p))
       /\ \A k \in DOMAIN map : PathsOf(k) \subseteq DOMAIN trie

\* ab was set and then deleted: no key is stored, and the node of a is still
\* there with a count of two.
C30_Witness ==
    /\ \A c \in Conns : pc[c] # "panicked"
    /\ last.decoded /\ last.cmd.op = "Del" /\ ~last.panic
    /\ K_ab \in DOMAIN last.map
    /\ map = EmptyMap
    /\ <<"a">> \in DOMAIN trie
    /\ trie[<<"a">>].counter = InitialCounter + 1

\* t2 is t1 after remove(k) returned: nothing when the path of k is not in
\* the trie; otherwise the node of k stays, one lower in count, its children
\* that counted zero are gone with all below them, and every other node is
\* as it was.
RemovedFrom(t1, t2, k) ==
    IF k \notin DOMAIN t1 THEN t2 = t1
    ELSE /\ k \in DOMAIN t2
         /\ t2[k] = Node(t1[k].has_key_ending_here, t1[k].counter - 1)
         /\ \A q \in Children(t2, k) : t2[q].counter # 0
         /\ \A x \in DOMAIN t1 \ {k} :
               IF \E q \in Children(t1, k) : t1[q].counter = 0 /\ IsPrefix(q, x)
               THEN x \notin DOMAIN t2
               ELSE x \in DOMAIN t2 /\ t2[x] = t1[x]
         /\ DOMAIN t2 \subseteq DOMAIN t1

\* C31 as stated: no node below the root that counts zero is attached to its
\* parent.
C31_NoZeroCountNodeAttached ==
    workload = "api" =>
        \A p \in DOMAIN trie \ {<<>>} : trie[p].counter # 0

\* C31: a remove(k) that returns prunes the direct children of the node of k
\* that count zero, and only those: the node of k itself stays attached when
\* its count reaches zero, until a remove of its parent's key.
C31_RemovePrunesZeroChildren ==
    (workload = "api" /\ last.cmd.op = "remove" /\ ~last.panic) =>
        RemovedFrom(last.trie, trie, last.cmd.key)

\* insert("cat"), remove("c") twice, remove(""): the node of c, which counted
\* zero and was still attached, was pruned by the remove on the root.
C31_Witness ==
    /\ workload = "api" /\ pc[1] = "none" /\ nsent = 4
    /\ Inserted = {K_cat}
    /\ last.cmd.op = "remove" /\ last.cmd.key = K_empty /\ ~last.panic
    /\ K_c \in DOMAIN last.trie /\ last.trie[K_c].counter = 0
    /\ DOMAIN trie = {<<>>}
    /\ trie[<<>>].counter = InitialCounter - 1

\* The stored type a record of a kind reports: the name of the Rust type for
\* a parsed value, "Vec<u8>" for the opaque bytes of binary_set.
StoredTypeOf(kind) == IF kind = "Vec<u8>" THEN "Vec<u8>" ELSE type_name(kind)

\* What TYPE answers for a key last set as kind with the declared tag.
TypeAnswer(k, kind, tag) ==
    Response("Type", Message("Type", k, <<>>, StoredTypeOf(kind), tag), NoValue, 0,
             {}, TRUE)

\* C32: the acknowledgment of a successful SET of k with tag d, and every
\* TYPE k until the next successful SET or DEL of k, report the stored type
\* of the kind stored and the user type d; a SET that does not parse changes
\* neither.
C32_TypeReportsStoredAndDeclared ==
    /\ \A k \in DOMAIN written :
          written[k].op = "set" =>
             /\ get_record(map, k).ok
             /\ map[k].type_name = StoredTypeOf(written[k].kind)
             /\ map[k].desired_type_name = written[k].tag
             /\ map[k].value.kind = written[k].kind
    /\ (LastIsSet /\ ~last.shut /\ ~last.panic) =>
          IF LastParses
          THEN last.resp = Written(SetKey(last.cmd.key, StoredTypeOf(LastKind),
                                          last.cmd.t))
          ELSE /\ last.resp.msg.kind = "ParseError"
               /\ map = last.map
    /\ (/\ last.decoded /\ last.cmd.op = "Type" /\ ~last.shut
        /\ last.cmd.key \in DOMAIN written /\ written[last.cmd.key].op = "set") =>
          last.resp = TypeAnswer(last.cmd.key, written[last.cmd.key].kind,
                                 written[last.cmd.key].tag)

\* The last successful SET of ab declared the tag blob, and TYPE ab answers
\* Vec<u8> with the user type blob.
C32_Witness ==
    /\ last.decoded /\ last.cmd.op = "Type" /\ last.cmd.key = K_ab
    /\ K_ab \in DOMAIN written /\ written[K_ab].tag = T_blob
    /\ last.resp = TypeAnswer(K_ab, "Vec<u8>", T_blob)

\* C33: DEL k1 .. kn answers the number of distinct listed keys that had a
\* record before the command, a key listed twice counting once; afterwards
\* no listed key has a record and every other record is as it was.
C33_DelCountsDistinctKeys ==
    (last.decoded /\ last.cmd.op = "Del" /\ ~last.shut /\ ~last.panic) =>
       /\ last.resp = Response("Deleted", NoMessage, NoValue,
                               Cardinality(LastKeys \cap DOMAIN last.map), {}, FALSE)
       /\ DOMAIN map = DOMAIN last.map \ LastKeys
       /\ \A k \in DOMAIN map : map[k] = last.map[k]
       /\ search_mode = last.mode

\* DEL ab ba ab on a store that holds ab and ac: the answer is 1, ab is gone
\* and ac is as it was.
C33_Witness ==
    /\ last.decoded /\ last.cmd.op = "Del" /\ ~last.panic
    /\ last.cmd.keys = <<K_ab, K_ba, K_ab>>
    /\ DOMAIN last.map = {K_ab, K_ac}
    /\ last.resp.kind = "Deleted" /\ last.resp.n = 1
    /\ DOMAIN map = {K_ac} /\ map[K_ac] = last.map[K_ac]

\* C34: a SET that the store accepts completes for every key a decoded SET
\* can carry, keys of one character and the empty key included: the record
\* is stored, the trie updated, the acknowledgment written and the connection
\* goes on.
C34_InsertNeverFails ==
    (LastIsSet /\ LastParses /\ ~last.shut) =>
       /\ ~last.panic
       /\ last.cmd.key \in DOMAIN map
       /\ last.resp.msg.kind = "SetKey"
       /\ trie # last.trie
       /\ pc[last.conn] \in {"reading", "done"}
       /\ ~poisoned

\* SET String with the empty key (two spaces after the type): the record is
\* stored under the empty key, Trie::insert panicked at remove(0) before
\* anything was written, and the connection is gone.
C34_Witness ==
    /\ LastIsSet /\ LastParses /\ ~last.shut
    /\ last.cmd.key = K_empty
    /\ K_empty \in DOMAIN map /\ K_empty \notin DOMAIN last.map
    /\ trie = last.trie
    /\ last.panic /\ last.resp = NoResponse
    /\ pc[last.conn] = "panicked" /\ poisoned

\* C35: no trie node's live-count, the root's included, is ever decremented
\* below zero: no DEL fails on the decrement and no counter holds a wrapped
\* value, whatever keys were deleted before.
C35_CountersNeverUnderflow ==
    /\ \A p \in DOMAIN trie : trie[p].counter >= 0
    /\ (last.decoded /\ last.cmd.op = "Del") => ~last.panic

\* DEL of the empty key, which was never stored, after the root's counter
\* had reached zero: the decrement of the root either panics (overflow
\* checks on) or wraps (overflow checks off).
C35_Witness ==
    /\ last.decoded /\ last.cmd.op = "Del" /\ last.cmd.keys = <<K_empty>>
    /\ K_empty \notin DOMAIN last.map
    /\ last.trie[<<>>].counter = 0
    /\ IF unchecked THEN trie[<<>>].counter < 0 /\ ~last.panic
                    ELSE last.panic /\ trie = last.trie /\ poisoned

\* C36: a DEL none of whose keys has a record in the map leaves the trie as
\* it was, also when a key's character path exists in the trie because of
\* other stored keys.
C36_DelOfAbsentKeyKeepsTrie ==
    (/\ last.decoded /\ last.cmd.op = "Del"
     /\ LastKeys \cap DOMAIN last.map = {}) => trie = last.trie

\* ab is stored, a is not: DEL a answers 0 and still decrements the node the
\* path of a ends at, which ab put there.
C36_Witness ==
    /\ last.decoded /\ last.cmd.op = "Del" /\ last.cmd.keys = <<K_a>>
    /\ ~last.panic
    /\ DOMAIN last.map = {K_ab} /\ map = last.map
    /\ last.resp.n = 0
    /\ <<"a">> \in DOMAIN last.trie /\ <<"a">> \in DOMAIN trie
    /\ trie[<<"a">>].counter = last.trie[<<"a">>].counter - 1

\* C37: a handler that aborts while it holds the store lock does not stop
\* the server for the others: whenever a spawned connection leaves the point
\* where it waits for the lock, it has acquired the lock and reads commands.
C37_LockSurvivesAbort ==
    [][\A c \in Conns :
          (pc[c] = "spawned" /\ pc'[c] # "spawned") =>
             (pc'[c] = "reading" /\ lock' = c)]_vars

\* Connection 1 ran SAVE and aborted with the lock held; connection 2 then
\* reached lock().unwrap() on the poisoned mutex and aborted without having
\* executed anything: the line it was sent is still unread.
C37_Witness ==
    /\ last.conn = 1 /\ last.decoded /\ last.cmd.op = "Save" /\ last.panic
    /\ poisoned /\ lock = NoConn
    /\ pc[1] = "panicked" /\ pc[2] = "panicked"
    /\ inbox[2] # NoLine

\* C38: the active search mode is Glob or Regex in every reachable state,
\* whatever the configured default and whatever MODE lines were received,
\* so a KEYS command never runs in Trie mode.
C38_ModeIsGlobOrRegex ==
    /\ search_mode \in {"Glob", "Regex"}
    /\ (last.decoded /\ last.cmd.op = "Mode") => last.cmd.mode \in {"Glob", "Regex"}
    /\ (last.decoded /\ last.cmd.op = "Keys") => last.mode \in {"Glob", "Regex"}

\* MODE TRIEX, the line whose word spells TRIE once its last byte is
\* dropped, is refused by the decoder after MODE REGEXX had switched the
\* mode: the mode stays Regex.
C38_Witness ==
    /\ last.line = Line(<<W_MODE, W_TRIEX>>)
    /\ ~last.decoded /\ ~last.panic
    /\ last.mode = "Regex" /\ search_mode = "Regex"

\* The key lists of AddKeyLists and the lists of three keys that name one
\* key twice in a row, before or after the other.
AddKeyOrders ==
    AddKeyLists \cup {<<a, a, b>> : a, b \in AddKeys}
                \cup {<<b, a, a>> : a, b \in AddKeys}

\* C39: add over an integer type, on keys that all hold the type, returns
\* the exact sum if and only if every running partial sum, in key order from
\* zero, is within the type's range, and the overflow error otherwise, also
\* when the sum of all the values is in range.
C39_AddChecksEveryPartialSum ==
    \A kind \in {"i8", "u8"} : \A keys \in AddKeyOrders :
        AllOfKind(map, kind, keys) =>
            \A r \in {add(map, kind, keys)} :
                /\ r.ok <=> PartialsWithin(map, kind, keys, Len(keys))
                /\ r.ok => r = Ok(Value(kind, SumOf(map, keys), <<>>), NoMessage)
                /\ ~r.ok => r = Err(AddOverflowError)

\* ab holds the i8 100 and ba the i8 -100: 100 + 100 - 100 overflows at the
\* second key although the total is 100, and 100 - 100 + 100, the same three
\* values in another order, is 100.
C39_Witness ==
    /\ K_ab \in DOMAIN map /\ K_ba \in DOMAIN map
    /\ map[K_ab].value = Value("i8", 100, <<>>)
    /\ map[K_ba].value = Value("i8", 0 - 100, <<>>)
    /\ last.decoded /\ last.cmd.op = "Set"
    /\ SumOf(map, <<K_ab, K_ab, K_ba>>) = 100
    /\ add(map, "i8", <<K_ab, K_ab, K_ba>>) = Err(AddOverflowError)
    /\ add(map, "i8", <<K_ab, K_ba, K_ab>>) = Ok(Value("i8", 100, <<>>), NoMessage)

\* C40: TTL <key> <seconds> and DELTTL <key> write no response, on a key
\* that has a record and on a key that has none; on a key that has none they
\* create no record and leave the map, the trie and the search mode as they
\* were.
C40_TtlSetIsSilent ==
    (last.decoded /\ last.cmd.op = "TtlSet") =>
       /\ last.resp = NoResponse /\ ~last.panic
       /\ pc[last.conn] \in {"reading", "done"}
       /\ DOMAIN map = DOMAIN last.map
       /\ last.cmd.key \notin DOMAIN last.map =>
             /\ map = last.map
             /\ trie = last.trie
             /\ search_mode = last.mode

\* TTL ba 2 while ab is the only key stored: nothing is written and the
\* store is what it was, ab included.
C40_Witness ==
    /\ last.decoded /\ last.cmd.op = "TtlSet" /\ last.cmd.ttl = Some(2)
    /\ last.cmd.key = K_ba
    /\ DOMAIN last.map = {K_ab}
    /\ map = last.map /\ trie = last.trie /\ search_mode = last.mode
    /\ last.resp = NoResponse /\ ~last.panic
    /\ pc[last.conn] = "reading"

====
